---- MODULE Spec2Model ----
(***************************************************************************)
(* A model of the Quill compiler's type system (type_system.cpp), type     *)
(* checker (type_checker.cpp) and IR optimisation passes                   *)
(* (optimization_manager.cpp, arithmetic_simplification.cpp,               *)
(* type_directed_pass_impl.cpp).                                           *)
(*                                                                         *)
(* The module holds several specifications over one set of variables:      *)
(*   SpecEnv      a TypeEnvironment object driven through its public API   *)
(*   SpecInfer    a TypeChecker inferring the types of expressions         *)
(*   SpecStmt     a TypeChecker checking statements                        *)
(*   SpecProgram  a TypeChecker checking whole programs                    *)
(*   SpecTypeDirected  the type-directed pass over one IR function         *)
(*   SpecPasses   the four function passes over one IR function            *)
(*   SpecInline   the function-inlining pass over one IR module            *)
(*   SpecEquals   Type::equals over pairs of types                         *)
(*   SpecAssign   isAssignableFrom and promoteNumericTypes over pairs       *)
(*   SpecInstantiate  GenericInstantiator::instantiate over type trees     *)
(*   SpecSolve    TypeConstraints::solve, one loop iteration per step      *)
(*   SpecSiblings checkProgram over programs of independent functions      *)
(*   SpecNull     the checker's entry points given null AST nodes          *)
(*   SpecManager  QuillOptimizationManager running its pass pipeline       *)
(*   SpecDeadCode dead-code elimination and constant folding over an IR    *)
(*                function with a variable first assigned after a return   *)
(*   SpecLocals   checkProgram over functions sharing a local's name       *)
(*   SpecResimplify  arithmetic simplification re-run on its own output    *)
(* A specification leaves the variables of the other components at their   *)
(* idle values.                                                            *)
(***************************************************************************)
EXTENDS Integers, Sequences, FiniteSets, TLC

VARIABLES
    scopes,           \* TypeEnvironment::scopes, innermost scope last
    current_context,  \* TypeChecker::current_context (an InferenceContext)
    error_messages,   \* TypeChecker::error_messages
    last,             \* the last public call made and what it returned
    snaps,            \* history: the lookup table seen by each pushScope
    module,           \* the llvm::Module the passes run on: its functions
    trace,            \* history of the last pass run (see NoTrace) and the
                      \* QuillOptimizationManager object (trace.manager)
    type_bindings,    \* GenericInstantiator::type_bindings
    tcall             \* the type-system call in progress or last made

envVars == <<scopes, current_context, error_messages, last, snaps>>

irVars == <<module, trace>>

typeVars == <<type_bindings, tcall>>

vars == <<scopes, current_context, error_messages, last, snaps, module, trace,
          type_bindings, tcall>>

(***************************************************************************)
(* Bounds                                                                  *)
(***************************************************************************)
MaxScopes == 3

(***************************************************************************)
(* Types (include/type_system.h).  A Type is a record                      *)
(*   kind  the TypeKind                                                    *)
(*   name  Type::name                                                      *)
(*   subs  the owned sub-types (Function: parameters then return type)     *)
(*   tags  strings owned by the type (Error: its message)                  *)
(***************************************************************************)
Ty(kind, name, subs, tags) ==
    [kind |-> kind, name |-> name, subs |-> subs, tags |-> tags]

\* nullptr where the code holds a Type*
NullT == Ty("NULL", "", <<>>, <<>>)

IntType == Ty("INT", "int", <<>>, <<>>)

FloatType == Ty("FLOAT", "float", <<>>, <<>>)

BoolType == Ty("BOOL", "bool", <<>>, <<>>)

StringType == Ty("STRING", "str", <<>>, <<>>)

VoidType == Ty("VOID", "void", <<>>, <<>>)

UnknownType == Ty("UNKNOWN", "unknown", <<>>, <<>>)

ErrorType(msg) == Ty("ERROR_TYPE", "error", <<>>, <<msg>>)

FunctionType(params, ret) == Ty("FUNCTION", "function", params \o <<ret>>, <<>>)

param_types(f) == SubSeq(f.subs, 1, Len(f.subs) - 1)

return_type(f) == f.subs[Len(f.subs)]

isNumeric(t) == t.kind \in {"INT", "FLOAT"}

isInteger(t) == t.kind = "INT"

isFloat(t) == t.kind = "FLOAT"

isBool(t) == t.kind = "BOOL"

isString(t) == t.kind = "STRING"

isVoid(t) == t.kind = "VOID"

isFunction(t) == t.kind = "FUNCTION"

isUnknown(t) == t.kind = "UNKNOWN"

isError(t) == t.kind = "ERROR_TYPE"

\* ListType; the constructor fixes the name
ListType(elem) == Ty("LIST", "list", <<elem>>, <<>>)

\* TupleType::TupleType
TupleType(elems) == Ty("TUPLE", "tuple", elems, <<>>)

\* UnionType::UnionType; subs is UnionType::types
UnionType(union_types) == Ty("UNION", "union", union_types, <<>>)

\* GenericType::GenericType; the name is the parameter_name, no constraints
GenericType(name) == Ty("GENERIC", name, <<>>, <<>>)

\* A Variant (tag, data_type) and a Method (name, signature)
Variant(tag, data_type) == [tag |-> tag, type |-> data_type]

Method(name, signature) == [tag |-> name, type |-> signature]

\* DiscriminatedUnionType::DiscriminatedUnionType: tags[i] is variants[i].tag,
\* subs[i] is variants[i].data_type and also (cloned) UnionType::types[i]
DiscriminatedUnionType(vars_) ==
    Ty("DISCRIMINATED_UNION", "discriminated_union",
       [i \in 1..Len(vars_) |-> vars_[i].type],
       [i \in 1..Len(vars_) |-> vars_[i].tag])

\* InterfaceType::InterfaceType: tags[i] is methods[i].name, subs[i] its signature
InterfaceType(name, meths) ==
    Ty("INTERFACE", name,
       [i \in 1..Len(meths) |-> meths[i].type],
       [i \in 1..Len(meths) |-> meths[i].tag])

\* The first entry of t whose tag is `tag`, NullT (nullptr) when there is none
firstTagged(t, tag) ==
    IF \E i \in 1..Len(t.tags) : t.tags[i] = tag
    THEN t.subs[CHOOSE i \in 1..Len(t.tags) :
                    /\ t.tags[i] = tag
                    /\ \A j \in 1..(i - 1) : t.tags[j] # tag]
    ELSE NullT

getVariantType(t, tag) == firstTagged(t, tag)

getMethod(t, name) == firstTagged(t, name)

hasMethod(t, name) == getMethod(t, name) # NullT

RECURSIVE equals(_, _)
\* Type::equals and its overrides; a is *this, b is other (may be NullT)
equals(a, b) ==
    IF b = NullT THEN FALSE
    ELSE IF a.kind = "FUNCTION" THEN
        /\ b.kind = "FUNCTION"
        /\ Len(a.subs) = Len(b.subs)
        /\ \A i \in 1..Len(a.subs) : equals(a.subs[i], b.subs[i])
    ELSE IF a.kind = "LIST" THEN
        /\ b.kind = "LIST"
        /\ equals(a.subs[1], b.subs[1])
    ELSE IF a.kind = "TUPLE" THEN
        /\ b.kind = "TUPLE"
        /\ Len(a.subs) = Len(b.subs)
        /\ \A i \in 1..Len(a.subs) : equals(a.subs[i], b.subs[i])
    ELSE IF a.kind = "UNION" THEN
        /\ b.kind = "UNION"
        /\ Len(a.subs) = Len(b.subs)
        /\ \A i \in 1..Len(a.subs) :
              \E j \in 1..Len(b.subs) : equals(a.subs[i], b.subs[j])
    ELSE IF a.kind = "DISCRIMINATED_UNION" THEN
        /\ b.kind = "DISCRIMINATED_UNION"
        /\ Len(a.tags) = Len(b.tags)
        /\ \A i \in 1..Len(a.tags) :
              /\ getVariantType(b, a.tags[i]) # NullT
              /\ equals(a.subs[i], getVariantType(b, a.tags[i]))
    ELSE IF a.kind = "INTERFACE" THEN
        /\ b.kind = "INTERFACE"
        /\ a.name = b.name
        /\ Len(a.tags) = Len(b.tags)
        /\ \A i \in 1..Len(a.tags) :
              /\ getMethod(b, a.tags[i]) # NullT
              /\ equals(a.subs[i], getMethod(b, a.tags[i]))
    ELSE a.kind = b.kind /\ a.name = b.name

\* The override that only accepts its own kind, in place of FloatType's
isAssignableFrom_own_kind(a, b) == equals(a, b)

RECURSIVE isAssignableFrom(_, _)
\* Type::isAssignableFrom and its overrides; a is *this, b is other
isAssignableFrom(a, b) ==
    IF a.kind = "FLOAT" THEN b # NullT /\ b.kind \in {"FLOAT", "INT"}
    ELSE IF a.kind = "UNKNOWN" THEN TRUE
    ELSE IF a.kind \in {"UNION", "DISCRIMINATED_UNION"} THEN
        /\ b # NullT
        /\ \E i \in 1..Len(a.subs) : isAssignableFrom(a.subs[i], b)
    ELSE IF a.kind = "INTERFACE" THEN
        /\ b # NullT
        /\ b.kind = "INTERFACE"
        /\ \A i \in 1..Len(a.tags) :
              /\ hasMethod(b, a.tags[i])
              /\ equals(a.subs[i], getMethod(b, a.tags[i]))
    ELSE equals(a, b)

RECURSIVE toString(_)
\* Type::toString and FunctionType::toString
toString(t) ==
    IF t.kind = "FUNCTION" THEN
        LET ps == param_types(t)
            F[i \in 0..Len(ps)] ==
                IF i = 0 THEN ""
                ELSE F[i - 1] \o (IF i > 1 THEN ", " ELSE "") \o toString(ps[i])
        IN  "(" \o F[Len(ps)] \o ") -> " \o toString(return_type(t))
    ELSE t.name

\* A promotion that only asks whether the first operand is Float
promoteNumericTypes_left(t1, t2) ==
    IF t1 = NullT \/ t2 = NullT THEN ErrorType("null type in promotion")
    ELSE IF isFloat(t1) /\ isNumeric(t1) /\ isNumeric(t2) THEN FloatType
    ELSE IF isInteger(t1) /\ isInteger(t2) THEN IntType
    ELSE ErrorType("cannot promote non-numeric types")

promoteNumericTypes(t1, t2) ==
    IF t1 = NullT \/ t2 = NullT THEN ErrorType("null type in promotion")
    ELSE IF (isFloat(t1) \/ isFloat(t2)) /\ isNumeric(t1) /\ isNumeric(t2)
         THEN FloatType
    ELSE IF isInteger(t1) /\ isInteger(t2) THEN IntType
    ELSE ErrorType("cannot promote non-numeric types")

unifyTypes(t1, t2) ==
    IF t1 = NullT \/ t2 = NullT THEN ErrorType("null type in unification")
    ELSE IF equals(t1, t2) THEN t1
    ELSE IF isNumeric(t1) /\ isNumeric(t2) THEN promoteNumericTypes(t1, t2)
    ELSE IF isUnknown(t1) THEN t2
    ELSE IF isUnknown(t2) THEN t1
    ELSE ErrorType("cannot unify incompatible types: "
                   \o toString(t1) \o " and " \o toString(t2))

(***************************************************************************)
(* GenericInstantiator and TypeConstraints (type_system.cpp).              *)
(* type_bindings maps every generic parameter name to its bound Type, or   *)
(* to NullT when the std::map has no entry for it.                         *)
(***************************************************************************)
GenericNames == {"T", "U", "V"}

NoBindings == [n \in GenericNames |-> NullT]

bindTypeVariable(bindings, var_name, concrete_type) ==
    [bindings EXCEPT ![var_name] = concrete_type]

getBinding(bindings, var_name) == bindings[var_name]

RECURSIVE instantiate(_, _)
\* GenericInstantiator::instantiate and instantiateFunction
instantiate(bindings, generic_type) ==
    IF generic_type = NullT THEN NullT
    ELSE IF generic_type.kind = "GENERIC" THEN
        IF getBinding(bindings, generic_type.name) # NullT
        THEN getBinding(bindings, generic_type.name)
        ELSE generic_type
    ELSE IF generic_type.kind = "FUNCTION" THEN
        FunctionType([i \in 1..Len(param_types(generic_type)) |->
                         instantiate(bindings, param_types(generic_type)[i])],
                     instantiate(bindings, return_type(generic_type)))
    ELSE IF generic_type.kind = "LIST" THEN
        ListType(instantiate(bindings, generic_type.subs[1]))
    ELSE IF generic_type.kind = "TUPLE" THEN
        TupleType([i \in 1..Len(generic_type.subs) |->
                      instantiate(bindings, generic_type.subs[i])])
    ELSE IF generic_type.kind = "UNION" THEN
        UnionType([i \in 1..Len(generic_type.subs) |->
                      instantiate(bindings, generic_type.subs[i])])
    ELSE generic_type

\* A Constraint (kind, left, right); right is NullT when absent
Constraint(kind, left, right) == [kind |-> kind, left |-> left, right |-> right]

\* A loop body that binds without asking whether the parameter is bound
solveConstraint_rebind(bindings, c) ==
    IF c.kind = "EQUALS" /\ c.left.kind = "GENERIC" /\ c.right.kind # "GENERIC"
    THEN [bindings |-> bindTypeVariable(bindings, c.left.name, c.right),
          changed |-> TRUE]
    ELSE IF c.kind = "EQUALS" /\ c.right.kind = "GENERIC" /\ c.left.kind # "GENERIC"
    THEN [bindings |-> bindTypeVariable(bindings, c.right.name, c.left),
          changed |-> TRUE]
    ELSE IF c.kind \in {"NUMERIC", "COMPARABLE"} /\ c.left.kind = "GENERIC"
    THEN [bindings |-> bindTypeVariable(bindings, c.left.name, IntType),
          changed |-> TRUE]
    ELSE [bindings |-> bindings, changed |-> FALSE]

\* The body of solve's for loop for one constraint: the bindings after it and
\* whether it set `changed`
solveConstraint(bindings, c) ==
    IF /\ c.kind = "EQUALS"
       /\ c.left.kind = "GENERIC" /\ c.right.kind # "GENERIC"
    THEN IF getBinding(bindings, c.left.name) = NullT
         THEN [bindings |-> bindTypeVariable(bindings, c.left.name, c.right),
               changed |-> TRUE]
         ELSE [bindings |-> bindings, changed |-> FALSE]
    ELSE IF /\ c.kind = "EQUALS"
            /\ c.right.kind = "GENERIC" /\ c.left.kind # "GENERIC"
    THEN IF getBinding(bindings, c.right.name) = NullT
         THEN [bindings |-> bindTypeVariable(bindings, c.right.name, c.left),
               changed |-> TRUE]
         ELSE [bindings |-> bindings, changed |-> FALSE]
    ELSE IF c.kind \in {"NUMERIC", "COMPARABLE"} /\ c.left.kind = "GENERIC"
    THEN IF getBinding(bindings, c.left.name) = NullT
         THEN [bindings |-> bindTypeVariable(bindings, c.left.name, IntType),
               changed |-> TRUE]
         ELSE [bindings |-> bindings, changed |-> FALSE]
    ELSE [bindings |-> bindings, changed |-> FALSE]

\* The type-system call recorded in tcall:
\*   op, a, b      the call and its operands
\*   holds, type   what it returned (a bool or a Type)
\*   constraints   TypeConstraints::constraints during solve
\*   pc            where solve is: "idle", "while", "for", "done"
\*   i             index of the constraint the for loop is at
\*   changed       solve's local `changed`
\*   passes        iterations of the while loop started so far
\*   start, first  type_bindings when solve, and the current pass, started
NoTypeCall ==
    [op |-> "none", a |-> NullT, b |-> NullT, holds |-> FALSE, type |-> NullT,
     constraints |-> <<>>, pc |-> "idle", i |-> 0, changed |-> FALSE,
     passes |-> 0, start |-> NoBindings, first |-> NoBindings]

IdleTypes ==
    /\ type_bindings = NoBindings
    /\ tcall = NoTypeCall

(***************************************************************************)
(* TypeEnvironment (type_system.cpp).  A scope maps every name to its Type *)
(* or to NullT when the std::map has no entry for it.                      *)
(***************************************************************************)
Names == {"x", "y", "a", "b", "f", "g", "h", "main", "print"}

EmptyScope == [n \in Names |-> NullT]

\* TypeEnvironment::pushScope
pushScope(sc) == Append(sc, EmptyScope)

\* a popScope that forgets to keep the global scope
popScope_unguarded(sc) == SubSeq(sc, 1, Len(sc) - 1)

\* TypeEnvironment::popScope
popScope(sc) == IF Len(sc) > 1 THEN SubSeq(sc, 1, Len(sc) - 1) ELSE sc

\* a define that writes the outermost scope instead of the innermost one
define_outermost(sc, name, type) ==
    IF Len(sc) > 0 THEN [sc EXCEPT ![1][name] = type] ELSE sc

\* TypeEnvironment::define
define(sc, name, type) ==
    IF Len(sc) > 0 THEN [sc EXCEPT ![Len(sc)][name] = type] ELSE sc

\* TypeEnvironment::lookup: innermost scope first, NullT when not found
lookup(sc, name) ==
    LET hits == {i \in 1..Len(sc) : sc[i][name] # NullT}
    IN  IF hits = {} THEN NullT
        ELSE sc[CHOOSE i \in hits : \A j \in hits : j <= i][name]

\* TypeEnvironment::defineFunction
defineFunction(sc, name, type) == define(sc, name, type)

\* TypeEnvironment::lookupFunction
lookupFunction(sc, name, arg_types) ==
    LET type == lookup(sc, name)
    IN  IF type = NullT \/ ~isFunction(type) THEN NullT
        ELSE IF Len(param_types(type)) # Len(arg_types) THEN NullT
        ELSE IF \E i \in 1..Len(arg_types) :
                    ~isAssignableFrom(param_types(type)[i], arg_types[i])
             THEN NullT
        ELSE type


(***************************************************************************)
(* Syntax trees (include/ast.h).  Every node is a record                   *)
(*   k     the node class                                                  *)
(*   name  AssignmentStmtAST::name, VariableExprAST::name,                 *)
(*         CallExprAST::callee, or the one-character op of a Binary/Unary  *)
(*   num   NumberExprAST::value counted in halves (5 is the double 2.5)    *)
(*   kids  the owned child nodes in declaration order; an absent           *)
(*         else_stmt or return value is an absent kid                      *)
(***************************************************************************)
Node(k, name, num, kids) == [k |-> k, name |-> name, num |-> num, kids |-> kids]

NumberExprAST(halves) == Node("Number", "", halves, <<>>)

StringExprAST == Node("String", "", 0, <<>>)

VariableExprAST(n) == Node("Variable", n, 0, <<>>)

BinaryExprAST(op, lhs, rhs) == Node("Binary", op, 0, <<lhs, rhs>>)

UnaryExprAST(op, operand) == Node("Unary", op, 0, <<operand>>)

CallExprAST(callee, args) == Node("Call", callee, 0, args)

AssignmentStmtAST(n, value) == Node("Assignment", n, 0, <<value>>)

ExprStmtAST(e) == Node("ExprStmt", "", 0, <<e>>)

BlockStmtAST(stmts) == Node("Block", "", 0, stmts)

IfStmtAST(cond, then_s) == Node("If", "", 0, <<cond, then_s>>)

IfElseStmtAST(cond, then_s, else_s) == Node("If", "", 0, <<cond, then_s, else_s>>)

WhileStmtAST(cond, body) == Node("While", "", 0, <<cond, body>>)

ReturnStmtAST(value) == Node("Return", "", 0, <<value>>)

PrintStmtAST(e) == Node("Print", "", 0, <<e>>)

FunctionAST(n, args, body) == [name |-> n, args |-> args, body |-> body]

\* nullptr where the code holds a FunctionAST*; no function has an empty name
NullFunctionAST == FunctionAST("", <<>>, Node("Null", "", 0, <<>>))

(***************************************************************************)
(* Parser (src/parser.cpp): the character stored in BinaryExprAST::op for  *)
(* each operator token.                                                    *)
(***************************************************************************)
parse_comparison_op(token) ==
    CASE token = "<"  -> "<"
      [] token = "<=" -> "L"
      [] token = ">"  -> ">"
      [] token = ">=" -> "G"

parse_equality_op(token) == IF token = "==" THEN "=" ELSE "!"

ComparisonTokens == {"<", "<=", ">", ">="}

EqualityTokens == {"==", "!="}

\* the op character of each of the six comparison operators
ComparisonOp(token) ==
    IF token \in ComparisonTokens THEN parse_comparison_op(token)
    ELSE parse_equality_op(token)

(***************************************************************************)
(* InferenceContext (type_checker.cpp)                                     *)
(***************************************************************************)
InferenceContext(types, modified) ==
    [isNull |-> FALSE, variable_types |-> types, modified_variables |-> modified]

\* a fresh std::make_unique<InferenceContext>()
NewContext == InferenceContext(EmptyScope, {})

\* current_context after unique_ptr::reset()
NullContext == [isNull |-> TRUE, variable_types |-> EmptyScope,
                modified_variables |-> {}]

\* InferenceContext::setVariableType
setVariableType(ctx, name, type) ==
    [ctx EXCEPT !.variable_types[name] = type]

\* InferenceContext::getVariableType
getVariableType(ctx, name) == ctx.variable_types[name]

\* InferenceContext::markVariableModified
markVariableModified(ctx, name) ==
    [ctx EXCEPT !.modified_variables = @ \cup {name}]

\* InferenceContext::merge
merge(this, other) ==
    InferenceContext(
        [n \in Names |->
            LET this_type == this.variable_types[n]
                other_type == other.variable_types[n]
            IN  IF other_type = NullT THEN this_type
                ELSE IF this_type = NullT THEN other_type
                ELSE LET common == unifyTypes(this_type, other_type)
                     IN  IF ~isError(common) THEN common ELSE this_type],
        this.modified_variables \cup other.modified_variables)

(***************************************************************************)
(* TypeErrorReporter and TypeCheckResult (type_checker.cpp)                *)
(***************************************************************************)
formatTypeError(context, expected, actual) ==
    "Type error in " \o context \o ": expected "
        \o (IF expected # NullT THEN toString(expected) ELSE "unknown")
        \o ", got "
        \o (IF actual # NullT THEN toString(actual) ELSE "unknown")

formatUndefinedVariable(name) == "Undefined variable: " \o name

formatUndefinedFunction(name) == "Undefined function: " \o name

\* a TypeCheckResult holding a type and no error
Ok(type) == [type |-> type, errors |-> <<>>]

\* a default TypeCheckResult after addError(msg)
Err(msg) == [type |-> NullT, errors |-> <<msg>>]

hasErrors(r) == r.errors # <<>>

(***************************************************************************)
(* TypeChecker (type_checker.cpp).  st is the checker's mutable state:     *)
(* st.scopes is type_env, st.ctx is current_context.                       *)
(***************************************************************************)
\* TypeChecker::lookupVariable
lookupVariable(st, name) ==
    IF ~st.ctx.isNull /\ getVariableType(st.ctx, name) # NullT
    THEN getVariableType(st.ctx, name)
    ELSE lookup(st.scopes, name)

\* TypeChecker::isAssignable
isAssignable(target, source) ==
    IF target = NullT \/ source = NullT THEN FALSE
    ELSE isAssignableFrom(target, source)

\* TypeChecker::isComparable
isComparable(left, right) ==
    IF left = NullT \/ right = NullT THEN FALSE
    ELSE \/ equals(left, right)
         \/ isNumeric(left) /\ isNumeric(right)
         \/ isString(left) /\ isString(right)

\* TypeChecker::inferNumberType
inferNumberType(expr) ==
    IF expr.num % 2 = 0 THEN Ok(IntType) ELSE Ok(FloatType)

\* TypeChecker::inferVariableType
inferVariableType(st, expr) ==
    LET type == lookupVariable(st, expr.name)
    IN  IF type = NullT THEN Err(formatUndefinedVariable(expr.name))
        ELSE Ok(type)

ArithmeticOps == {"+", "-", "*", "/", "%"}

\* the case labels of the comparison arm of inferBinaryType's switch
ComparisonCases == {"<", ">", "=", "!"}

\* the switch of TypeChecker::inferBinaryType, operands already inferred
inferBinaryOp(op, left_type, right_type) ==
    IF op \in ArithmeticOps THEN
        IF isNumeric(left_type) /\ isNumeric(right_type)
        THEN Ok(promoteNumericTypes(left_type, right_type))
        ELSE Err("Arithmetic operation requires numeric types, got: "
                 \o toString(left_type) \o " " \o op \o " " \o toString(right_type))
    ELSE IF op \in ComparisonCases THEN
        IF isComparable(left_type, right_type) THEN Ok(BoolType)
        ELSE Err("Cannot compare incompatible types: "
                 \o toString(left_type) \o " and " \o toString(right_type))
    ELSE Err("Unknown binary operator: " \o op)

\* the switch of TypeChecker::inferUnaryType, operand already inferred
inferUnaryOp(op, operand_type) ==
    IF op = "-" THEN
        IF isNumeric(operand_type) THEN Ok(operand_type)
        ELSE Err("Unary minus requires numeric type, got: "
                 \o toString(operand_type))
    ELSE IF op = "!" THEN Ok(BoolType)
    ELSE Err("Unknown unary operator: " \o op)

\* the element of a one-element set; The({e(v) : v \in {x}}) evaluates x once
The(S) == CHOOSE v \in S : TRUE

RECURSIVE inferExpressionType(_, _)
\* TypeChecker::inferExpressionType with inferStringType, inferBinaryType,
\* inferUnaryType and inferCallType
inferExpressionType(st, expr) ==
    CASE expr.k = "Null" -> Err("Null expression")
      [] expr.k = "Number" -> inferNumberType(expr)
      [] expr.k = "String" -> Ok(StringType)
      [] expr.k = "Variable" -> inferVariableType(st, expr)
      [] expr.k = "Binary" ->
            The({IF hasErrors(left_result) THEN left_result
                 ELSE The({IF hasErrors(right_result) THEN right_result
                           ELSE inferBinaryOp(expr.name, left_result.type,
                                              right_result.type) :
                           right_result \in {inferExpressionType(st, expr.kids[2])}}) :
                 left_result \in {inferExpressionType(st, expr.kids[1])}})
      [] expr.k = "Unary" ->
            The({IF hasErrors(operand_result) THEN operand_result
                 ELSE inferUnaryOp(expr.name, operand_result.type) :
                 operand_result \in {inferExpressionType(st, expr.kids[1])}})
      [] expr.k = "Call" ->
            The({LET bad == {i \in 1..Len(expr.kids) : hasErrors(arg_results[i])}
                 IN  IF bad # {}
                     THEN arg_results[CHOOSE i \in bad : \A j \in bad : i <= j]
                     ELSE The({IF func_type = NullT
                               THEN Err(formatUndefinedFunction(expr.name))
                               ELSE Ok(return_type(func_type)) :
                               func_type \in {lookupFunction(st.scopes, expr.name,
                                    [i \in 1..Len(expr.kids) |-> arg_results[i].type])}}) :
                 arg_results \in {[i \in 1..Len(expr.kids) |->
                                    inferExpressionType(st, expr.kids[i])]}})
      [] OTHER -> Err("Unknown expression type")

\* a statement result: the checker state it leaves and its TypeCheckResult
SOk(st, type) == [st |-> st, type |-> type, errors |-> <<>>]

SErr(st, msg) == [st |-> st, type |-> NullT, errors |-> <<msg>>]

SRes(st, r) == [st |-> st, type |-> r.type, errors |-> r.errors]

\* TypeChecker::checkAssignment
checkAssignment(st, stmt) ==
    The({IF hasErrors(expr_result) THEN SRes(st, expr_result)
         ELSE The({IF existing_type # NullT THEN
                       IF ~isAssignable(existing_type, expr_result.type)
                       THEN SErr(st, formatTypeError(
                                "assignment to variable '" \o stmt.name \o "'",
                                existing_type, expr_result.type))
                       ELSE SOk([st EXCEPT !.ctx =
                                    markVariableModified(st.ctx, stmt.name)],
                                VoidType)
                   ELSE SOk([scopes |-> define(st.scopes, stmt.name,
                                               expr_result.type),
                             ctx |-> markVariableModified(
                                        setVariableType(st.ctx, stmt.name,
                                                        expr_result.type),
                                        stmt.name)],
                            VoidType) :
                   existing_type \in {lookupVariable(st, stmt.name)}}) :
         expr_result \in {inferExpressionType(st, stmt.kids[1])}})

\* TypeChecker::checkReturn
checkReturn(st, stmt) ==
    IF Len(stmt.kids) > 0 /\ stmt.kids[1].k # "Null" THEN SRes(st, inferExpressionType(st, stmt.kids[1]))
    ELSE SOk(st, VoidType)

\* TypeChecker::checkPrint
checkPrint(st, stmt) ==
    The({IF hasErrors(expr_result) THEN SRes(st, expr_result)
         ELSE SOk(st, VoidType) :
         expr_result \in {inferExpressionType(st, stmt.kids[1])}})

RECURSIVE checkStatement(_, _)
RECURSIVE checkStatements(_, _, _, _)
\* the loop of TypeChecker::checkBlock from statement i on; acc is result
checkStatements(st, statements, i, acc) ==
    IF i > Len(statements) THEN [acc EXCEPT !.st = st]
    ELSE The({checkStatements(stmt_result.st, statements, i + 1,
                [st |-> stmt_result.st,
                 type |-> IF stmt_result.type # NullT /\ ~isVoid(stmt_result.type)
                          THEN stmt_result.type ELSE acc.type,
                 errors |-> acc.errors \o stmt_result.errors]) :
              stmt_result \in {checkStatement(st, statements[i])}})

\* TypeChecker::checkBlock
checkBlock(st, stmt) ==
    The({[result EXCEPT !.st.scopes = popScope(result.st.scopes)] :
         result \in {checkStatements([st EXCEPT !.scopes = pushScope(st.scopes)],
                        stmt.kids, 1,
                        SOk([st EXCEPT !.scopes = pushScope(st.scopes)], VoidType))}})

\* TypeChecker::checkIf after the condition: then_context is the clone of
\* current_context taken before the then-branch, else_context the clone taken
\* before the else-branch; both branches run on current_context itself
checkBranches(st, stmt) ==
    The({IF Len(stmt.kids) > 2 /\ stmt.kids[3].k # "Null" THEN
            The({[st |-> [scopes |-> else_result.st.scopes,
                          ctx |-> merge(st.ctx, then_result.st.ctx)],
                  type |-> VoidType,
                  errors |-> else_result.errors \o then_result.errors] :
                 else_result \in {checkStatement(then_result.st, stmt.kids[3])}})
         ELSE [st |-> [scopes |-> then_result.st.scopes, ctx |-> st.ctx],
               type |-> VoidType,
               errors |-> then_result.errors] :
         then_result \in {checkStatement(st, stmt.kids[2])}})

\* TypeChecker::checkIf
checkIf(st, stmt) ==
    The({IF hasErrors(cond_result) THEN SRes(st, cond_result)
         ELSE IF ~isBool(cond_result.type) /\ ~isNumeric(cond_result.type)
         THEN SErr(st, "If condition must be boolean or numeric, got: "
                       \o toString(cond_result.type))
         ELSE checkBranches(st, stmt) :
         cond_result \in {inferExpressionType(st, stmt.kids[1])}})

\* TypeChecker::checkWhile
checkWhile(st, stmt) ==
    The({IF hasErrors(cond_result) THEN SRes(st, cond_result)
         ELSE IF ~isBool(cond_result.type) /\ ~isNumeric(cond_result.type)
         THEN SErr(st, "While condition must be boolean or numeric, got: "
                       \o toString(cond_result.type))
         ELSE The({[st |-> body_result.st, type |-> VoidType,
                    errors |-> body_result.errors] :
                   body_result \in {checkStatement(st, stmt.kids[2])}}) :
         cond_result \in {inferExpressionType(st, stmt.kids[1])}})

\* TypeChecker::checkStatement
checkStatement(st, stmt) ==
    CASE stmt.k = "Null" -> SErr(st, "Null statement AST")
      [] stmt.k = "Assignment" -> checkAssignment(st, stmt)
      [] stmt.k = "Return" -> checkReturn(st, stmt)
      [] stmt.k = "If" -> checkIf(st, stmt)
      [] stmt.k = "While" -> checkWhile(st, stmt)
      [] stmt.k = "Print" -> checkPrint(st, stmt)
      [] stmt.k = "Block" -> checkBlock(st, stmt)
      [] stmt.k = "ExprStmt" -> SRes(st, inferExpressionType(st, stmt.kids[1]))
      [] OTHER -> SErr(st, "Unknown statement type")

RECURSIVE defineParameters(_, _, _)
\* the parameter loop of TypeChecker::checkFunction from parameter i on
defineParameters(sc, args, i) ==
    IF i > Len(args) THEN sc
    ELSE defineParameters(define(sc, args[i], FloatType), args, i + 1)

\* TypeChecker::checkFunction
checkFunction(st, function) ==
    IF function = NullFunctionAST THEN SErr(st, "Null function AST")
    ELSE
    The({[st |-> [body_result.st EXCEPT
                    !.scopes = popScope(body_result.st.scopes)],
          type |-> IF body_result.type # NullT THEN body_result.type
                   ELSE VoidType,
          errors |-> body_result.errors] :
         body_result \in {checkStatement(
            [st EXCEPT !.scopes =
                defineParameters(pushScope(st.scopes), function.args, 1)],
            function.body)}})

RECURSIVE collectSignatures(_, _, _)
\* first pass of TypeChecker::checkProgram from function i on
collectSignatures(sc, functions, i) ==
    IF i > Len(functions) THEN sc
    ELSE collectSignatures(
            defineFunction(sc, functions[i].name,
                FunctionType([j \in 1..Len(functions[i].args) |-> UnknownType],
                             UnknownType)),
            functions, i + 1)

RECURSIVE checkFunctions_abort(_, _, _, _)
\* A second pass that stops at the first function whose check has errors
checkFunctions_abort(st, functions, i, msgs) ==
    IF i > Len(functions) THEN [st |-> st, msgs |-> msgs]
    ELSE The({IF hasErrors(result)
              THEN [st |-> result.st, msgs |-> msgs \o result.errors]
              ELSE checkFunctions_abort(result.st, functions, i + 1, msgs) :
              result \in {checkFunction(st, functions[i])}})

RECURSIVE checkFunctions(_, _, _, _)
\* second pass of TypeChecker::checkProgram from function i on; msgs is
\* error_messages
checkFunctions(st, functions, i, msgs) ==
    IF i > Len(functions) THEN [st |-> st, msgs |-> msgs]
    ELSE The({checkFunctions(result.st, functions, i + 1, msgs \o result.errors) :
              result \in {checkFunction(st, functions[i])}})

\* TypeChecker::checkProgram on a non-null program: the checker state and
\* error_messages it leaves, and the TypeCheckResult it returns
checkProgram(st, functions) ==
    The({[st |-> [scopes |-> done.st.scopes, ctx |-> NullContext],
          msgs |-> done.msgs,
          type |-> VoidType,
          errors |-> done.msgs] :
         done \in {checkFunctions(
                    [scopes |-> collectSignatures(st.scopes, functions, 1),
                     ctx |-> NewContext],
                    functions, 1, <<>>)}})

(***************************************************************************)
(* LLVM IR as the passes see it.  A double is held as the exact fraction   *)
(* n/d in lowest terms (d = 0 stands for an infinity or NaN); an integer   *)
(* of type iN is held as its signed value.                                 *)
(***************************************************************************)
Abs(x) == IF x < 0 THEN -x ELSE x

RECURSIVE gcd(_, _)
gcd(a, b) == IF b = 0 THEN a ELSE gcd(b, a % b)

\* the fraction n/d in lowest terms with a positive denominator
Frac(n, d) ==
    IF d = 0 THEN [n |-> IF n > 0 THEN 1 ELSE IF n < 0 THEN -1 ELSE 0, d |-> 0]
    ELSE LET g == gcd(Abs(n), Abs(d))
             s == IF d < 0 THEN -1 ELSE 1
         IN  [n |-> (s * n) \div g, d |-> (s * d) \div g]

\* llvm::ConstantFP of type double
ConstantFP(n, d) ==
    [k |-> "ConstantFP", n |-> Frac(n, d).n, d |-> Frac(n, d).d, ty |-> "double"]

\* llvm::ConstantInt
ConstantInt(ty, n) == [k |-> "ConstantInt", n |-> n, d |-> 1, ty |-> ty]

\* llvm::Argument number i of the enclosing function
Argument(i, ty) == [k |-> "Argument", n |-> i, d |-> 1, ty |-> ty]

\* an operand that is the instruction id
InstRef(id, ty) == [k |-> "Instruction", n |-> id, d |-> 1, ty |-> ty]

\* llvm::Instruction: args are its value operands; bbs the blocks it names
\* (branch targets, phi incoming blocks); aux the callee of a call or the
\* predicate of a comparison
Inst(id, op, args, ty, aux, bbs) ==
    [id |-> id, op |-> op, args |-> args, ty |-> ty, aux |-> aux, bbs |-> bbs]

BasicBlock(name, insts) == [name |-> name, insts |-> insts]

\* llvm::Function; next_id numbers the instructions created later
Function(name, nargs, blocks, next_id) ==
    [name |-> name, nargs |-> nargs, blocks |-> blocks, next_id |-> next_id]

isDeclaration(F) == F.blocks = <<>>

BinaryOps_FP == {"FAdd", "FSub", "FMul", "FDiv", "FRem"}

BinaryOps_Int == {"Add", "Shl", "AShr"}

\* dyn_cast<BinaryOperator>
isBinaryOperator(I) == I.op \in BinaryOps_FP \cup BinaryOps_Int

CastOps == {"Trunc", "ZExt", "SExt", "FPToUI", "FPToSI", "UIToFP", "SIToFP",
            "BitCast"}

\* dyn_cast<CastInst>
isCastInst(I) == I.op \in CastOps

isTerminator(I) == I.op \in {"Br", "CondBr", "Ret"}

RECURSIVE instructionsFrom(_, _)
instructionsFrom(F, b) ==
    IF b > Len(F.blocks) THEN <<>>
    ELSE F.blocks[b].insts \o instructionsFrom(F, b + 1)

\* the instructions of F in iteration order (for BB : F, for I : BB)
instructions(F) == instructionsFrom(F, 1)

ids(F) == [i \in 1..Len(instructions(F)) |-> instructions(F)[i].id]

hasInst(F, id) == \E i \in 1..Len(instructions(F)) : instructions(F)[i].id = id

getInst(F, id) ==
    instructions(F)[CHOOSE i \in 1..Len(instructions(F)) :
                        instructions(F)[i].id = id]

blockNames(F) == {F.blocks[b].name : b \in 1..Len(F.blocks)}

mapInsts(F, Op(_)) ==
    [F EXCEPT !.blocks =
        [b \in 1..Len(F.blocks) |->
            BasicBlock(F.blocks[b].name,
                       [i \in 1..Len(F.blocks[b].insts) |->
                            Op(F.blocks[b].insts[i])])]]

refersTo(I, id) ==
    \E a \in 1..Len(I.args) : I.args[a].k = "Instruction" /\ I.args[a].n = id

\* Value::users() of the instruction id
users(F, id) ==
    {instructions(F)[i].id : i \in {j \in 1..Len(instructions(F)) :
                                        refersTo(instructions(F)[j], id)}}

use_empty(F, id) == users(F, id) = {}

\* Value::replaceAllUsesWith
replaceAllUsesWith(F, id, new) ==
    mapInsts(F, LAMBDA I :
        [I EXCEPT !.args = [a \in 1..Len(I.args) |->
            IF I.args[a].k = "Instruction" /\ I.args[a].n = id
            THEN new ELSE I.args[a]]])

\* Instruction::eraseFromParent; operands of other instructions that still
\* name id are left as they are
eraseFromParent(F, id) ==
    [F EXCEPT !.blocks =
        [b \in 1..Len(F.blocks) |->
            BasicBlock(F.blocks[b].name,
                       SelectSeq(F.blocks[b].insts, LAMBDA I : I.id # id))]]

RECURSIVE insertInto(_, _, _, _)
insertInto(insts, id, new, i) ==
    IF i > Len(insts) THEN <<>>
    ELSE (IF insts[i].id = id THEN <<new, insts[i]>> ELSE <<insts[i]>>)
         \o insertInto(insts, id, new, i + 1)

\* a new instruction placed immediately before the instruction id
insertBefore(F, id, new) ==
    [F EXCEPT !.next_id = @ + 1,
              !.blocks = [b \in 1..Len(F.blocks) |->
                  BasicBlock(F.blocks[b].name,
                             insertInto(F.blocks[b].insts, id, new, 1))]]

\* surviving instructions with an operand naming an instruction that is no
\* longer in F, or naming a block that is no longer in F
danglingUses(F) ==
    {instructions(F)[i].id : i \in {j \in 1..Len(instructions(F)) :
        LET I == instructions(F)[j]
        IN  \/ \E a \in 1..Len(I.args) :
                    I.args[a].k = "Instruction" /\ ~hasInst(F, I.args[a].n)
            \/ \E t \in 1..Len(I.bbs) : I.bbs[t] \notin blockNames(F)}}

(***************************************************************************)
(* What the instructions compute                                           *)
(***************************************************************************)
width(ty) ==
    CASE ty = "i1" -> 1 [] ty = "i8" -> 8 [] ty = "i16" -> 16
      [] ty = "i32" -> 32 [] OTHER -> 64

isIntTy(ty) == ty \in {"i1", "i8", "i16", "i32", "i64"}

\* the signed value of the low width(ty) bits of n; the i32 and i64 values
\* met here stay far inside their range and are left as they are
wrap(ty, n) ==
    IF width(ty) > 16 THEN n
    ELSE LET m == 2 ^ width(ty)
             r == n % m
         IN  IF 2 * r >= m THEN r - m ELSE r

\* the same bits read as an unsigned number
unsigned(ty, n) == IF n < 0 /\ width(ty) <= 16 THEN n + 2 ^ width(ty) ELSE n

\* the integer part of the fraction v (rounding toward zero)
truncToInt(v) == IF v.n < 0 THEN -((-v.n) \div v.d) ELSE v.n \div v.d

\* the value of a BinaryOperator on the values a and b
binValue(op, ty, a, b) ==
    CASE op = "FAdd" -> Frac(a.n * b.d + b.n * a.d, a.d * b.d)
      [] op = "FSub" -> Frac(a.n * b.d - b.n * a.d, a.d * b.d)
      [] op = "FMul" -> Frac(a.n * b.n, a.d * b.d)
      [] op = "FDiv" -> IF b.n = 0 THEN Frac(a.n, 0)
                        ELSE Frac(a.n * b.d, a.d * b.n)
      [] op = "FRem" -> \* fmod: a - b * trunc(a / b)
            IF b.n = 0 THEN Frac(0, 0)
            ELSE LET q == truncToInt(Frac(a.n * b.d, a.d * b.n))
                 IN  Frac(a.n * b.d - q * b.n * a.d, a.d * b.d)
      [] op = "Add" -> Frac(wrap(ty, a.n + b.n), 1)
      [] op = "Shl" -> Frac(wrap(ty, a.n * (2 ^ b.n)), 1)
      [] op = "AShr" -> Frac(a.n \div (2 ^ b.n), 1)

\* the value of a CastInst on the value v
castValue(op, srcTy, destTy, v) ==
    CASE op = "SIToFP" -> v
      [] op = "UIToFP" -> Frac(unsigned(srcTy, v.n), 1)
      [] op = "FPToSI" -> Frac(wrap(destTy, truncToInt(v)), 1)
      [] op = "FPToUI" -> Frac(wrap(destTy, truncToInt(v)), 1)
      [] op = "Trunc" -> Frac(wrap(destTy, v.n), 1)
      [] op = "SExt" -> v
      [] op = "ZExt" -> Frac(unsigned(srcTy, v.n), 1)
      [] op = "BitCast" -> v

less(a, b) == a.n * b.d < b.n * a.d

\* the i1 value of a comparison (true is the bit pattern 1, signed -1)
cmpValue(pred, a, b) ==
    LET r == CASE pred \in {"OEQ", "UEQ", "EQ"} -> a = b
               [] pred \in {"ONE", "UNE", "NE"} -> a # b
               [] pred \in {"OLT", "ULT", "SLT"} -> less(a, b)
               [] pred \in {"OLE", "ULE", "SLE"} -> ~less(b, a)
               [] pred \in {"OGT", "UGT", "SGT"} -> less(b, a)
               [] pred \in {"OGE", "UGE", "SGE"} -> ~less(a, b)
    IN  Frac(IF r THEN -1 ELSE 0, 1)

RECURSIVE valueOf(_, _, _)
\* the value an operand has when F runs with the argument values argv:
\* arithmetic, casts and comparisons are evaluated; an operand naming an
\* instruction that is not in F has no value
valueOf(F, operand, argv) ==
    CASE operand.k \in {"ConstantFP", "ConstantInt"} ->
            [n |-> operand.n, d |-> operand.d]
      [] operand.k = "Argument" -> argv[operand.n]
      [] operand.k = "Instruction" ->
            IF ~hasInst(F, operand.n) THEN [n |-> operand.n, d |-> -2]
            ELSE The({
                CASE isBinaryOperator(I) ->
                        The({binValue(I.op, I.ty, a, b) :
                             a \in {valueOf(F, I.args[1], argv)},
                             b \in {valueOf(F, I.args[2], argv)}})
                  [] isCastInst(I) ->
                        castValue(I.op, I.args[1].ty, I.ty,
                                  valueOf(F, I.args[1], argv))
                  [] I.op \in {"FCmp", "ICmp"} ->
                        cmpValue(I.aux, valueOf(F, I.args[1], argv),
                                 valueOf(F, I.args[2], argv))
                  [] OTHER -> [n |-> I.id, d |-> -1] :
                I \in {getInst(F, operand.n)}})

(***************************************************************************)
(* The passes.  A pass walks the instructions that were in the function    *)
(* when it started (instructions it inserts before the current one are not *)
(* visited), rewrites as it goes and erases the queued instructions at the *)
(* end.  erased_in_use and blocks_in_use are history: what was erased      *)
(* while a surviving instruction still named it.                           *)
(***************************************************************************)
NoStats ==
    [numeric_optimizations |-> 0, integer_arithmetic_optimized |-> 0,
     multiplication_to_shifts |-> 0, divisions_to_shifts |-> 0,
     type_casts_eliminated |-> 0, specializations_applied |-> 0]

PassState(F, stats, build) ==
    [F |-> F, toErase |-> <<>>, changed |-> FALSE, erased_in_use |-> {},
     blocks_in_use |-> {}, stats |-> stats, build |-> build,
     aborted |-> FALSE]

RECURSIVE ForEach(_, _, _, _)
\* the loop  for (x : xs) st = Op(st, x)  from element i on
ForEach(Op(_, _), st, xs, i) ==
    IF i > Len(xs) THEN st
    ELSE The({ForEach(Op, v, xs, i + 1) : v \in {Op(st, xs[i])}})

\* inst->eraseFromParent() as the passes' final loops call it
erase(st, id) ==
    [st EXCEPT !.F = eraseFromParent(st.F, id),
               !.erased_in_use =
                    IF use_empty(st.F, id) THEN @ ELSE @ \cup {id}]

\* for (inst : toErase) inst->eraseFromParent()
eraseAll(st) ==
    The({[ForEach(erase, s, s.toErase, 1) EXCEPT !.toErase = <<>>] :
         s \in {st}})

NullInst == Inst(0, "none", <<>>, "", "", <<>>)

\* what simplifyExpression / evaluateConstantExpression hand back: nullptr,
\* an existing value, or an instruction they created before binOp
NotSimplified ==
    [found |-> FALSE, value |-> ConstantFP(0, 1), created |-> FALSE,
     inst |-> NullInst]

Simplified(v) ==
    [found |-> TRUE, value |-> v, created |-> FALSE, inst |-> NullInst]

Created(I) ==
    [found |-> TRUE, value |-> InstRef(I.id, I.ty), created |-> TRUE,
     inst |-> I]

\* QuillArithmeticSimplificationPass::isZero
isZero(val) == val.k = "ConstantFP" /\ val.n = 0 /\ val.d = 1

\* QuillArithmeticSimplificationPass::isOne
isOne(val) == val.k = "ConstantFP" /\ val.n = 1 /\ val.d = 1

isTwo(val) == val.k = "ConstantFP" /\ val.n = 2 /\ val.d = 1

\* QuillArithmeticSimplificationPass::simplifyExpression
simplifyExpression(F, binOp) ==
    LET lhs == binOp.args[1]
        rhs == binOp.args[2]
        new(op, a, b) == Inst(F.next_id, op, <<a, b>>, "double", "", <<>>)
    IN  CASE binOp.op = "FAdd" ->
                IF isZero(rhs) THEN Simplified(lhs)
                ELSE IF isZero(lhs) THEN Simplified(rhs)
                ELSE IF lhs = rhs
                THEN Created(new("FMul", lhs, ConstantFP(2, 1)))
                ELSE NotSimplified
          [] binOp.op = "FSub" ->
                IF isZero(rhs) THEN Simplified(lhs)
                ELSE IF lhs = rhs THEN Simplified(ConstantFP(0, 1))
                ELSE NotSimplified
          [] binOp.op = "FMul" ->
                IF isZero(lhs) \/ isZero(rhs) THEN Simplified(ConstantFP(0, 1))
                ELSE IF isOne(rhs) THEN Simplified(lhs)
                ELSE IF isOne(lhs) THEN Simplified(rhs)
                ELSE IF isTwo(rhs) THEN Created(new("FAdd", lhs, lhs))
                ELSE IF isTwo(lhs) THEN Created(new("FAdd", rhs, rhs))
                ELSE NotSimplified
          [] binOp.op = "FDiv" ->
                IF isOne(rhs) THEN Simplified(lhs)
                ELSE IF lhs = rhs THEN Simplified(ConstantFP(1, 1))
                ELSE IF isZero(lhs) THEN Simplified(ConstantFP(0, 1))
                ELSE NotSimplified
          [] OTHER -> NotSimplified

\* binOp->replaceAllUsesWith(r); toRemove.push_back(binOp); changed = true
replaceAndQueue(st, id, r) ==
    [st EXCEPT !.F = The({replaceAllUsesWith(G, id, r.value) :
                          G \in {IF r.created
                                 THEN insertBefore(st.F, id, r.inst)
                                 ELSE st.F}}),
               !.toErase = Append(@, id),
               !.changed = TRUE]

\* the body of the loop of simplifyArithmetic for the instruction id
simplifyStep(st, id) ==
    The({IF isBinaryOperator(I)
         THEN The({IF r.found THEN replaceAndQueue(st, id, r) ELSE st :
                   r \in {simplifyExpression(st.F, I)}})
         ELSE st :
         I \in {getInst(st.F, id)}})

\* QuillArithmeticSimplificationPass::simplifyArithmetic
simplifyArithmetic(st) == eraseAll(ForEach(simplifyStep, st, ids(st.F), 1))

\* QuillConstantFoldingPass::evaluateConstantExpression
evaluateConstantExpression(binOp) ==
    LET lhs == binOp.args[1]
        rhs == binOp.args[2]
    IN  IF lhs.k # "ConstantFP" \/ rhs.k # "ConstantFP" THEN NotSimplified
        ELSE IF binOp.op \notin BinaryOps_FP THEN NotSimplified
        ELSE IF binOp.op \in {"FDiv", "FRem"} /\ rhs.n = 0 /\ rhs.d = 1
        THEN NotSimplified
        ELSE The({Simplified(ConstantFP(v.n, v.d)) :
                  v \in {binValue(binOp.op, "double", lhs, rhs)}})

\* the body of the loop of foldBinaryOperations for the instruction id
foldStep(st, id) ==
    The({IF isBinaryOperator(I)
         THEN The({IF r.found THEN replaceAndQueue(st, id, r) ELSE st :
                   r \in {evaluateConstantExpression(I)}})
         ELSE st :
         I \in {getInst(st.F, id)}})

\* QuillConstantFoldingPass::foldBinaryOperations
foldBinaryOperations(st) == eraseAll(ForEach(foldStep, st, ids(st.F), 1))

\* the stores of a ConstantFP that use the alloca, by id
constantStores(F, alloca) ==
    {s \in users(F, alloca) :
        getInst(F, s).op = "Store" /\ getInst(F, s).args[1].k = "ConstantFP"}

\* the body of the loop of foldConstants for the instruction id: the users
\* of the alloca are walked newest first, and the first replaceAllUsesWith
\* leaves the load without uses
foldLoadStep(st, id) ==
    The({IF /\ isBinaryOperator(I)
            /\ I.args[1].k = "Instruction"
            /\ hasInst(st.F, I.args[1].n)
         THEN The({IF /\ load.op = "Load"
                      /\ load.args[1].k = "Instruction"
                      /\ hasInst(st.F, load.args[1].n)
                      /\ getInst(st.F, load.args[1].n).op = "Alloca"
                      /\ constantStores(st.F, load.args[1].n) # {}
                   THEN LET stores == constantStores(st.F, load.args[1].n)
                            newest == CHOOSE s \in stores :
                                        \A t \in stores : t <= s
                        IN  [st EXCEPT
                                !.F = replaceAllUsesWith(st.F, load.id,
                                        getInst(st.F, newest).args[1]),
                                !.changed = TRUE]
                   ELSE st :
                   load \in {getInst(st.F, I.args[1].n)}})
         ELSE st :
         I \in {getInst(st.F, id)}})

\* QuillConstantFoldingPass::foldConstants
foldConstants(st) == ForEach(foldLoadStep, st, ids(st.F), 1)

\* QuillConstantFoldingPass::run
runConstantFolding(st) ==
    The({foldConstants(s) : s \in {foldBinaryOperations(st)}})

\* QuillDeadCodeEliminationPass::isInstructionDead
isInstructionDead(F, I) ==
    /\ I.op \notin {"Store", "Call"}    \* mayHaveSideEffects, StoreInst, CallInst
    /\ ~isTerminator(I)
    /\ use_empty(F, I.id)

RECURSIVE eliminateDeadInstructions(_)
\* QuillDeadCodeEliminationPass::eliminateDeadInstructions
eliminateDeadInstructions(st) ==
    The({IF toRemove = <<>> THEN st
         ELSE The({eliminateDeadInstructions(s) :
                   s \in {eraseAll([st EXCEPT !.toErase = toRemove,
                                              !.changed = TRUE])}}) :
         toRemove \in {SelectSeq(ids(st.F), LAMBDA id :
                            isInstructionDead(st.F, getInst(st.F, id)))}})

\* successors(BB): the blocks named by the terminator that ends the block
successors(F, name) ==
    LET bb == F.blocks[CHOOSE b \in 1..Len(F.blocks) : F.blocks[b].name = name]
        n == Len(bb.insts)
    IN  IF n > 0 /\ isTerminator(bb.insts[n])
        THEN {bb.insts[n].bbs[t] : t \in 1..Len(bb.insts[n].bbs)}
        ELSE {}

RECURSIVE reachableFrom(_, _)
\* the worklist loop of eliminateUnreachableBlocks
reachableFrom(F, reachable) ==
    LET more == UNION {successors(F, n) : n \in reachable} \cap blockNames(F)
    IN  IF more \subseteq reachable THEN reachable
        ELSE reachableFrom(F, reachable \cup more)

\* bb->eraseFromParent(): the block goes with its instructions; nothing
\* outside the block is rewritten
eraseBlock(st, name) ==
    LET F == st.F
        bb == F.blocks[CHOOSE b \in 1..Len(F.blocks) : F.blocks[b].name = name]
        own == {bb.insts[i].id : i \in 1..Len(bb.insts)}
        rest == SelectSeq(instructions(F), LAMBDA I : I.id \notin own)
        used == {id \in own : \E i \in 1..Len(rest) : refersTo(rest[i], id)}
        named == \E i \in 1..Len(rest) :
                    \E t \in 1..Len(rest[i].bbs) : rest[i].bbs[t] = name
    IN  [st EXCEPT !.F.blocks = SelectSeq(F.blocks, LAMBDA b : b.name # name),
                   !.erased_in_use = @ \cup used,
                   !.blocks_in_use = IF named THEN @ \cup {name} ELSE @]

\* QuillDeadCodeEliminationPass::eliminateUnreachableBlocks
eliminateUnreachableBlocks(st) ==
    The({The({IF toRemove = <<>> THEN st
              ELSE ForEach(eraseBlock, [st EXCEPT !.changed = TRUE],
                           toRemove, 1) :
              toRemove \in {SelectSeq(
                    [b \in 1..Len(st.F.blocks) |-> st.F.blocks[b].name],
                    LAMBDA n : n \notin reachable)}}) :
         reachable \in {reachableFrom(st.F, {st.F.blocks[1].name})}})

\* QuillDeadCodeEliminationPass::run
runDeadCodeElimination(st) ==
    The({eliminateUnreachableBlocks(s) : s \in {eliminateDeadInstructions(st)}})

\* QuillTypeDirectedOptimizationPass::isIntegerConstant: the operands met
\* here are far inside the int64 range
isIntegerConstant(val) == val.k = "ConstantFP" /\ val.d = 1

RECURSIVE isPowerOfTwo(_)
\* value > 0 && (value & (value - 1)) == 0
isPowerOfTwo(value) ==
    /\ value > 0
    /\ (value = 1 \/ (value % 2 = 0 /\ isPowerOfTwo(value \div 2)))

RECURSIVE getShiftAmount(_)
\* while (temp > 1) { temp >>= 1; shift_amount++; }
getShiftAmount(temp) ==
    IF temp > 1 THEN 1 + getShiftAmount(temp \div 2) ELSE 0

\* IRBuilder folds an operation on constants: the i64 result of op on the
\* two integers, converted back with SIToFP
foldedIntOp(op, leftInt, rightInt) ==
    The({ConstantFP(v.n, 1) :
         v \in {binValue(op, "i64", Frac(leftInt, 1), Frac(rightInt, 1))}})

\* FCmp predicates and the ICmp predicates chosen for them
intPred(pred) ==
    CASE pred = "OEQ" -> "EQ" [] pred = "ONE" -> "NE" [] pred = "OLT" -> "SLT"
      [] pred = "OLE" -> "SLE" [] pred = "OGT" -> "SGT" [] pred = "OGE" -> "SGE"
      [] OTHER -> ""

bump(st, counters) ==
    [st EXCEPT !.stats = [c \in DOMAIN st.stats |->
                            IF c \in counters THEN st.stats[c] + 1
                            ELSE st.stats[c]]]

\* an LLVM API precondition fails (operand types of a shift differ, a value
\* is replaced by one of another type): a build with assertions stops there,
\* a build without them carries on
unchecked(st, carried) ==
    IF st.build = "assert" THEN [st EXCEPT !.aborted = TRUE] ELSE carried

\* the body of the loop of optimizeNumericOperations for the instruction id
numericStep(st, id) ==
    IF st.aborted THEN st
    ELSE The({
        IF /\ isBinaryOperator(I) \/ I.op = "FCmp"
           /\ isIntegerConstant(I.args[1]) /\ isIntegerConstant(I.args[2])
        THEN LET leftInt == I.args[1].n
                 rightInt == I.args[2].n
             IN  CASE I.op = "FAdd" ->
                        bump(replaceAndQueue(st, id,
                                Simplified(foldedIntOp("Add", leftInt, rightInt))),
                             {"numeric_optimizations",
                              "integer_arithmetic_optimized"})
                   [] I.op = "FMul" /\ isPowerOfTwo(rightInt) ->
                        unchecked(st,
                            bump(replaceAndQueue(st, id,
                                    Simplified(foldedIntOp("Shl", leftInt,
                                                getShiftAmount(rightInt)))),
                                 {"numeric_optimizations",
                                  "multiplication_to_shifts"}))
                   [] I.op = "FDiv" /\ isPowerOfTwo(rightInt) ->
                        unchecked(st,
                            bump(replaceAndQueue(st, id,
                                    Simplified(foldedIntOp("AShr", leftInt,
                                                getShiftAmount(rightInt)))),
                                 {"numeric_optimizations",
                                  "divisions_to_shifts"}))
                   [] I.op = "FCmp" /\ intPred(I.aux) # "" ->
                        unchecked(st,
                            bump(replaceAndQueue(st, id,
                                    Simplified(ConstantFP(
                                        unsigned("i1",
                                            cmpValue(intPred(I.aux),
                                                Frac(leftInt, 1),
                                                Frac(rightInt, 1)).n), 1))),
                                 {"numeric_optimizations",
                                  "integer_arithmetic_optimized"}))
                   [] OTHER -> st
        ELSE st :
        I \in {getInst(st.F, id)}})

\* QuillTypeDirectedOptimizationPass::optimizeNumericOperations; the final
\* erase loop is not reached by a run that stopped
optimizeNumericOperations(st) ==
    The({IF s.aborted THEN s ELSE eraseAll(s) :
         s \in {ForEach(numericStep, st, ids(st.F), 1)}})

\* CastInst::getCastOpcode(value of srcTy, false, destTy, false)
getCastOpcode(srcTy, destTy) ==
    IF isIntTy(destTy)
    THEN IF isIntTy(srcTy)
         THEN IF width(destTy) < width(srcTy) THEN "Trunc"
              ELSE IF width(destTy) > width(srcTy) THEN "ZExt"
              ELSE "BitCast"
         ELSE "FPToUI"
    ELSE IF isIntTy(srcTy) THEN "UIToFP" ELSE "BitCast"

\* CastInst::castIsValid
castIsValid(opcode, srcTy, destTy) ==
    CASE opcode = "Trunc" ->
            isIntTy(srcTy) /\ isIntTy(destTy) /\ width(srcTy) > width(destTy)
      [] opcode \in {"ZExt", "SExt"} ->
            isIntTy(srcTy) /\ isIntTy(destTy) /\ width(srcTy) < width(destTy)
      [] opcode \in {"FPToUI", "FPToSI"} -> ~isIntTy(srcTy) /\ isIntTy(destTy)
      [] opcode \in {"UIToFP", "SIToFP"} -> isIntTy(srcTy) /\ ~isIntTy(destTy)
      [] opcode = "BitCast" -> width(srcTy) = width(destTy)
      [] OTHER -> FALSE

\* builder.CreateCast(opcode, v, destTy): v itself when it has the type, the
\* folded constant when v is one, else a new instruction before the cast
CreateCast(F, opcode, v, destTy) ==
    IF v.ty = destTy THEN Simplified(v)
    ELSE IF v.k = "ConstantFP" \/ v.k = "ConstantInt"
    THEN The({Simplified(IF isIntTy(destTy) THEN ConstantInt(destTy, c.n)
                         ELSE ConstantFP(c.n, c.d)) :
              c \in {castValue(opcode, v.ty, destTy, [n |-> v.n, d |-> v.d])}})
    ELSE Created(Inst(F.next_id, opcode, <<v>>, destTy, "", <<>>))

\* the body of the loop of eliminateUnnecessaryTypeCasts for the instruction id
castStep(st, id) ==
    The({
        IF ~isCastInst(cast) THEN st
        ELSE IF cast.args[1].ty = cast.ty      \* getSrcTy() == getDestTy()
        THEN bump(replaceAndQueue(st, id, Simplified(cast.args[1])),
                  {"type_casts_eliminated"})
        ELSE IF cast.args[1].k = "Instruction" /\ hasInst(st.F, cast.args[1].n)
        THEN The({
            IF ~isCastInst(innerCast) THEN st
            ELSE IF innerCast.args[1].ty = cast.ty
            THEN bump(replaceAndQueue(st, id, Simplified(innerCast.args[1])),
                      {"type_casts_eliminated"})
            ELSE The({
                IF castIsValid(opcode, innerCast.args[1].ty, cast.ty)
                THEN bump(replaceAndQueue(st, id,
                            CreateCast(st.F, opcode, innerCast.args[1], cast.ty)),
                          {"type_casts_eliminated"})
                ELSE st :
                opcode \in {getCastOpcode(innerCast.args[1].ty, cast.ty)}}) :
            innerCast \in {getInst(st.F, cast.args[1].n)}})
        ELSE st :
        cast \in {getInst(st.F, id)}})

\* QuillTypeDirectedOptimizationPass::eliminateUnnecessaryTypeCasts
eliminateUnnecessaryTypeCasts(st) ==
    eraseAll(ForEach(castStep, st, ids(st.F), 1))

\* Module::getFunction; a function of no name stands for nullptr
NullFunction == Function("", 0, <<>>, 0)

getFunction(M, name) ==
    IF \E f \in 1..Len(M) : M[f].name = name
    THEN M[CHOOSE f \in 1..Len(M) : M[f].name = name]
    ELSE NullFunction

\* QuillTypeDirectedOptimizationPass::canSpecializeFunction
canSpecializeFunction(func) ==
    /\ func # NullFunction /\ ~isDeclaration(func)
    /\ func.nargs > 0 /\ Len(func.blocks) <= 10

\* QuillTypeDirectedOptimizationPass::specializeGenericFunctions
specializeGenericFunctions(st, M) ==
    ForEach(LAMBDA s, id :
                IF /\ getInst(s.F, id).op = "Call"
                   /\ canSpecializeFunction(getFunction(M, getInst(s.F, id).aux))
                THEN bump(s, {"specializations_applied"})
                ELSE s,
            st, ids(st.F), 1)

\* QuillTypeDirectedOptimizationPass::run; optimizePolymorphicCalls and
\* inlineMonomorphicFunctions change nothing
runTypeDirected(st, M) ==
    The({IF s1.aborted THEN s1
         ELSE The({specializeGenericFunctions(s2, M) :
                   s2 \in {eliminateUnnecessaryTypeCasts(s1)}}) :
         s1 \in {optimizeNumericOperations(st)}})

\* QuillArithmeticSimplificationPass::run
runArithmeticSimplification(st) == simplifyArithmetic(st)

(***************************************************************************)
(* The function-inlining pass                                              *)
(***************************************************************************)
INLINE_THRESHOLD == 20

\* the weight calculateInstructionCount gives one instruction
instructionWeight(I) ==
    1 + (CASE I.op = "Call" -> 5
           [] I.op \in {"Br", "CondBr"} -> 1
           [] I.op \in {"Load", "Store"} -> 2
           [] OTHER -> 0)

RECURSIVE sumWeights(_, _)
sumWeights(insts, i) ==
    IF i > Len(insts) THEN 0
    ELSE instructionWeight(insts[i]) + sumWeights(insts, i + 1)

\* QuillFunctionInliningPass::calculateInstructionCount
calculateInstructionCount(func) == sumWeights(instructions(func), 1)

\* QuillFunctionInliningPass::shouldInlineFunction
shouldInlineFunction(func) ==
    /\ func # NullFunction /\ ~isDeclaration(func)
    /\ func.name # "main"
    /\ Len(func.blocks) <= 3
    /\ calculateInstructionCount(func) <= INLINE_THRESHOLD

\* the functions func's body calls
callees(func) ==
    {instructions(func)[i].aux :
        i \in {j \in 1..Len(instructions(func)) :
                    instructions(func)[j].op = "Call"}}

RECURSIVE callsToInlineFrom(_, _)
\* first loop of inlineSmallFunctions from function f on: the call sites
\* whose callee passes shouldInlineFunction, as <<caller, call id>>
callsToInlineFrom(M, f) ==
    IF f > Len(M) THEN <<>>
    ELSE LET calls == SelectSeq(instructions(M[f]), LAMBDA I :
                        /\ I.op = "Call"
                        /\ shouldInlineFunction(getFunction(M, I.aux)))
         IN  [i \in 1..Len(calls) |-> [caller |-> M[f].name, id |-> calls[i].id]]
             \o callsToInlineFrom(M, f + 1)

RECURSIVE replaceInst(_, _, _, _)
\* insts with the instruction id replaced by the instructions new
replaceInst(insts, id, new, i) ==
    IF i > Len(insts) THEN <<>>
    ELSE (IF insts[i].id = id THEN new ELSE <<insts[i]>>)
         \o replaceInst(insts, id, new, i + 1)

\* llvm::InlineFunction for a callee of one block that ends in its ret: the
\* body is cloned in place of the call with the arguments substituted, the
\* cloned allocas go to the head of the caller's entry block, and the uses
\* of the call become the returned value
InlineFunction(caller, call, callee) ==
    CASE Len(callee.blocks) = 1 ->
        LET body == callee.blocks[1].insts
            n == Len(body)
            newId(old) == caller.next_id - 1 +
                          (CHOOSE i \in 1..n : body[i].id = old)
            remap(v) == CASE v.k = "Argument" -> call.args[v.n]
                          [] v.k = "Instruction" -> InstRef(newId(v.n), v.ty)
                          [] OTHER -> v
            cloned == [i \in 1..(n - 1) |->
                        [body[i] EXCEPT
                            !.id = caller.next_id - 1 + i,
                            !.args = [a \in 1..Len(body[i].args) |->
                                        remap(body[i].args[a])]]]
            allocas == SelectSeq(cloned, LAMBDA I : I.op = "Alloca")
            others == SelectSeq(cloned, LAMBDA I : I.op # "Alloca")
            spliced == [b \in 1..Len(caller.blocks) |->
                          BasicBlock(caller.blocks[b].name,
                            (IF b = 1 THEN allocas ELSE <<>>) \o
                            replaceInst(caller.blocks[b].insts, call.id,
                                        others, 1))]
        IN  replaceAllUsesWith(
                [caller EXCEPT !.blocks = spliced, !.next_id = @ + n - 1],
                call.id, remap(body[n].args[1]))

\* the callee's body calls the callee (the loop at the call site)
isRecursive(callee) == callee.name \in callees(callee)

\* the callee's body calls a function whose body calls the callee back
isIndirectlyRecursive(M, callee) ==
    \E g \in callees(callee) :
        /\ g # callee.name
        /\ callee.name \in callees(getFunction(M, g))

setFunction(M, func) ==
    [f \in 1..Len(M) |-> IF M[f].name = func.name THEN func ELSE M[f]]

\* the body of the second loop of inlineSmallFunctions for one call site;
\* inlined is history: each call inlined, with what its callee was then
inlineStep(st, site) ==
    The({The({
        IF caller.name = callee.name THEN st
        ELSE IF isRecursive(callee) THEN st
        ELSE [M |-> setFunction(st.M, InlineFunction(caller,
                        getInst(caller, site.id), callee)),
              changed |-> TRUE,
              inlined |-> st.inlined \cup
                    {[caller |-> caller.name, callee |-> callee.name,
                      direct |-> isRecursive(callee),
                      indirect |-> isIndirectlyRecursive(st.M, callee)]}] :
        callee \in {getFunction(st.M, getInst(caller, site.id).aux)}}) :
        caller \in {getFunction(st.M, site.caller)}})

\* QuillFunctionInliningPass::inlineSmallFunctions
inlineSmallFunctions(M) ==
    ForEach(inlineStep, [M |-> M, changed |-> FALSE, inlined |-> {}],
            callsToInlineFrom(M, 1), 1)

(***************************************************************************)
(* The record kept in `trace`: the pass run last, the module it ran on     *)
(* (before), the argument values the function is then evaluated with       *)
(* (input), how many passes have run, and what the run reported and left   *)
(* behind.                                                                 *)
(***************************************************************************)
NoTrace ==
    [pass |-> "none", before |-> <<>>, input |-> <<>>, runs |-> 0,
     changed |-> FALSE, aborted |-> FALSE, erased_in_use |-> {},
     blocks_in_use |-> {}, inlined |-> {}, stats |-> NoStats,
     manager |-> <<>>]

(***************************************************************************)
(* The record kept in `last`: the public call made, its inputs and what it *)
(* returned.  depth is scopes.size() when the call was made and popped the *)
(* scope a popScope destroyed.                                             *)
(***************************************************************************)
NullNode == Node("Null", "", 0, <<>>)

NoCall == [op |-> "none", name |-> "", node |-> NullNode, prog |-> <<>>,
           args |-> <<>>, type |-> NullT, errors |-> <<>>,
           depth |-> 0, popped |-> EmptyScope, crashed |-> FALSE]

(***************************************************************************)
(* SpecEnv: a TypeEnvironment driven through its public methods.           *)
(***************************************************************************)
EnvNames == {"x", "f"}

F1 == FunctionType(<<IntType>>, IntType)

F2 == FunctionType(<<FloatType, UnknownType>>, FloatType)

\* the types the environment's callers define for a name
EnvTypes(n) == IF n = "x" THEN {IntType, FloatType} ELSE {IntType, F1, F2}

EnvArgs == {<<>>, <<IntType>>, <<FloatType>>, <<IntType, StringType>>,
            <<StringType, IntType>>}

\* TypeEnvironment::TypeEnvironment
InitEnv ==
    /\ scopes = pushScope(<<>>)
    /\ current_context = NullContext
    /\ error_messages = <<>>
    /\ last = NoCall
    /\ snaps = <<>>
    /\ module = <<>>
    /\ trace = NoTrace
    /\ IdleTypes

EnvPushScope ==
    /\ Len(scopes) < MaxScopes
    /\ scopes' = pushScope(scopes)
    /\ snaps' = Append(snaps, [n \in Names |-> lookup(scopes, n)])
    /\ last' = [NoCall EXCEPT !.op = "pushScope", !.depth = Len(scopes)]
    /\ UNCHANGED <<current_context, error_messages>>
    /\ UNCHANGED <<irVars, typeVars>>

EnvPopScope ==
    /\ scopes' = popScope(scopes)
    /\ snaps' = IF Len(scopes') < Len(scopes)
                THEN SubSeq(snaps, 1, Len(snaps) - 1) ELSE snaps
    /\ last' = [NoCall EXCEPT !.op = "popScope", !.depth = Len(scopes),
                              !.popped = IF Len(scopes') < Len(scopes)
                                         THEN scopes[Len(scopes)]
                                         ELSE EmptyScope]
    /\ UNCHANGED <<current_context, error_messages>>
    /\ UNCHANGED <<irVars, typeVars>>

EnvDefine ==
    \E n \in EnvNames : \E t \in EnvTypes(n) :
        /\ scopes' = define(scopes, n, t)
        /\ last' = [NoCall EXCEPT !.op = "define", !.name = n, !.type = t,
                                  !.depth = Len(scopes)]
        /\ UNCHANGED <<current_context, error_messages, snaps>>
        /\ UNCHANGED <<irVars, typeVars>>

EnvLookup ==
    \E n \in EnvNames \cup {"g"} :
        /\ last' = [NoCall EXCEPT !.op = "lookup", !.name = n,
                                  !.type = lookup(scopes, n),
                                  !.depth = Len(scopes)]
        /\ UNCHANGED <<scopes, current_context, error_messages, snaps>>
        /\ UNCHANGED <<irVars, typeVars>>

EnvLookupFunction ==
    \E n \in EnvNames \cup {"g"} : \E args \in EnvArgs :
        /\ last' = [NoCall EXCEPT !.op = "lookupFunction", !.name = n,
                                  !.args = args,
                                  !.type = lookupFunction(scopes, n, args),
                                  !.depth = Len(scopes)]
        /\ UNCHANGED <<scopes, current_context, error_messages, snaps>>
        /\ UNCHANGED <<irVars, typeVars>>

NextEnv ==
    \/ EnvPushScope
    \/ EnvPopScope
    \/ EnvDefine
    \/ EnvLookup
    \/ EnvLookupFunction

SpecEnv == InitEnv /\ [][NextEnv]_vars

\* C8: after a pushScope, any defines and balanced nested push/pop pairs, and
\* the matching popScope, lookup(n) returns for every name n exactly what it
\* returned before the pushScope.
C8_ScopeFrame ==
    [][Len(scopes') < Len(scopes) =>
        \A n \in Names : lookup(scopes', n) = snaps[Len(snaps)][n]]_vars

\* a popScope has just removed a scope that shadowed an outer binding of one
\* name and held the only binding of another
C8_Witness ==
    /\ last.op = "popScope"
    /\ \E n \in Names :
        /\ last.popped[n] # NullT
        /\ lookup(scopes, n) # NullT
        /\ lookup(scopes, n) # last.popped[n]
    /\ \E m \in Names : last.popped[m] # NullT /\ lookup(scopes, m) = NullT

\* C9: the environment always holds at least one scope; a popScope issued
\* when only the global scope exists changes nothing; a define always takes
\* effect.
C9_GlobalPermanent ==
    /\ [](Len(scopes) >= 1)
    /\ [][(last'.op = "popScope" /\ Len(scopes) = 1) => scopes' = scopes]_vars
    /\ [][last'.op = "define" =>
            lookup(scopes', last'.name) = last'.type]_vars

\* a popScope was issued with only the global scope, which holds a binding
C9_Witness ==
    /\ last.op = "popScope"
    /\ last.depth = 1
    /\ Len(scopes) = 1
    /\ \E n \in Names : lookup(scopes, n) # NullT

(***************************************************************************)
(* The TypeChecker object.  Three specifications drive it through its      *)
(* public methods, each on syntax trees drawn from bounded families.       *)
(***************************************************************************)
NumI == NumberExprAST(2)      \* the literal 1

NumF == NumberExprAST(5)      \* the literal 2.5

Five == NumberExprAST(10)     \* the literal 5

Three == NumberExprAST(6)     \* the literal 3

NotE == UnaryExprAST("!", NumI)

CallF == CallExprAST("f", <<Five, Three>>)

\* TypeChecker::TypeChecker with initializeBuiltins
InitChecker ==
    /\ scopes = defineFunction(pushScope(<<>>), "print",
                               FunctionType(<<UnknownType>>, VoidType))
    /\ current_context = NewContext
    /\ error_messages = <<>>
    /\ last = NoCall
    /\ snaps = <<>>
    /\ module = <<>>
    /\ trace = NoTrace
    /\ IdleTypes

CheckerState == [scopes |-> scopes, ctx |-> current_context]

\* TypeChecker::beginInference
BeginInference ==
    /\ current_context' = NewContext
    /\ last' = [NoCall EXCEPT !.op = "beginInference"]
    /\ UNCHANGED <<scopes, error_messages, snaps>>
    /\ UNCHANGED <<irVars, typeVars>>

\* TypeChecker::defineFunction called with g: (int) -> int
DefineFunction ==
    /\ scopes' = defineFunction(scopes, "g", F1)
    /\ last' = [NoCall EXCEPT !.op = "defineFunction", !.name = "g", !.type = F1]
    /\ UNCHANGED <<current_context, error_messages, snaps>>
    /\ UNCHANGED <<irVars, typeVars>>

\* TypeChecker::defineVariable called for x
DefineVariable ==
    \E t \in {IntType, StringType} :
        /\ scopes' = define(scopes, "x", t)
        /\ last' = [NoCall EXCEPT !.op = "defineVariable", !.name = "x", !.type = t]
        /\ UNCHANGED <<current_context, error_messages, snaps>>
        /\ UNCHANGED <<irVars, typeVars>>

(***************************************************************************)
(* SpecInfer: inferExpressionType over expressions                         *)
(***************************************************************************)
\* operands of every inferable type: Int, Float, String, Bool, a variable
\* and a name bound to a Function type
OperandExprs == {NumI, NumF, StringExprAST, NotE, VariableExprAST("x"),
                 VariableExprAST("print")}

\* every op character the parser stores in a BinaryExprAST
BinaryOps == ArithmeticOps
             \cup {ComparisonOp(t) : t \in ComparisonTokens \cup EqualityTokens}
             \cup {"&", "|"}

BinaryExprs == {BinaryExprAST(op, l, r) :
                    op \in BinaryOps, l \in OperandExprs, r \in OperandExprs}

CallExprs == {CallExprAST(c, args) :
                c \in {"g", "h", "x", "print"},
                args \in {<<>>, <<NumI>>, <<NumF>>, <<Five, Three>>,
                          <<VariableExprAST("y")>>}}

Exprs == OperandExprs \cup BinaryExprs \cup CallExprs
         \cup {UnaryExprAST(op, e) : op \in {"-", "!", "+"}, e \in OperandExprs}

InferExpressionType ==
    \E expr \in Exprs :
        \E r \in {inferExpressionType(CheckerState, expr)} :
            /\ last' = [NoCall EXCEPT !.op = "inferExpressionType",
                                      !.node = expr,
                                      !.type = r.type, !.errors = r.errors]
            /\ UNCHANGED <<scopes, current_context, error_messages, snaps>>
            /\ UNCHANGED <<irVars, typeVars>>

NextInfer ==
    \/ InferExpressionType
    \/ DefineFunction
    \/ DefineVariable

SpecInfer == InitChecker /\ [][NextInfer]_vars

\* the operands of a binary expression both have a type
OperandsInferred(st, expr) ==
    /\ ~hasErrors(inferExpressionType(st, expr.kids[1]))
    /\ ~hasErrors(inferExpressionType(st, expr.kids[2]))

\* C5: for each of the six comparison operators as the parser encodes them,
\* inferBinaryType yields Bool with no error whenever the operand types are
\* equal, both numeric or both String, and an error otherwise.
C5_ComparisonsYieldBool ==
    (/\ last.op = "inferExpressionType"
     /\ last.node.k = "Binary"
     /\ last.node.name \in {ComparisonOp(t) :
                                t \in ComparisonTokens \cup EqualityTokens}
     /\ OperandsInferred(CheckerState, last.node))
    => LET l == inferExpressionType(CheckerState, last.node.kids[1]).type
           r == inferExpressionType(CheckerState, last.node.kids[2]).type
       IN  IF isComparable(l, r)
           THEN last.type = BoolType /\ last.errors = <<>>
           ELSE last.errors # <<>>

\* the types of the arguments of a call
ArgTypes(st, expr) ==
    [i \in 1..Len(expr.kids) |-> inferExpressionType(st, expr.kids[i]).type]

\* C10: a call whose name is bound to a function whose arity or parameter
\* types do not fit the arguments reports an outcome that differs from the
\* one reported for a name bound nowhere; a fitting call returns the
\* function's return type.
C10_OverloadFailureClassified ==
    (/\ last.op = "inferExpressionType"
     /\ last.node.k = "Call"
     /\ \A i \in 1..Len(last.node.kids) :
            ~hasErrors(inferExpressionType(CheckerState, last.node.kids[i]))
     /\ isFunction(lookup(scopes, last.node.name)))
    => IF lookupFunction(scopes, last.node.name,
                         ArgTypes(CheckerState, last.node)) = NullT
       THEN /\ last.errors # <<>>
            /\ last.errors # <<formatUndefinedFunction(last.node.name)>>
       ELSE /\ last.errors = <<>>
            /\ last.type = return_type(lookup(scopes, last.node.name))

(***************************************************************************)
(* SpecStmt: checkStatement over statements                                *)
(***************************************************************************)
AssignStmts == {AssignmentStmtAST("x", e) : e \in {NumI, NumF, StringExprAST}}

\* a branch as the parser builds it (a block) and as a bare statement
Branches == AssignStmts \cup {BlockStmtAST(<<a>>) : a \in AssignStmts}

IfStmts == {IfElseStmtAST(c, t, e) :
                c \in {NumI, NotE}, t \in Branches, e \in Branches}
           \cup {IfStmtAST(c, t) : c \in {NumI, StringExprAST}, t \in Branches}

Stmts == AssignStmts \cup IfStmts
         \cup {WhileStmtAST(c, b) : c \in {NumI, StringExprAST},
                                    b \in {BlockStmtAST(<<a>>) : a \in AssignStmts}}
         \cup {AssignmentStmtAST("y", VariableExprAST("x")),
               PrintStmtAST(VariableExprAST("y")),
               ReturnStmtAST(VariableExprAST("x")),
               Node("Return", "", 0, <<>>), ExprStmtAST(CallF),
               BlockStmtAST(<<AssignmentStmtAST("x", NumI),
                              AssignmentStmtAST("x", NumF)>>)}

\* checkStatement called by a holder of the checker while an inference
\* context exists (checkAssignment and checkIf dereference current_context)
CheckStatement ==
    \E stmt \in Stmts :
        \E r \in {checkStatement(CheckerState, stmt)} :
            /\ ~current_context.isNull
            /\ scopes' = r.st.scopes
            /\ current_context' = r.st.ctx
            /\ last' = [NoCall EXCEPT !.op = "checkStatement", !.node = stmt,
                                      !.type = r.type, !.errors = r.errors]
            /\ UNCHANGED <<error_messages, snaps>>
            /\ UNCHANGED <<irVars, typeVars>>

NextStmt ==
    \/ CheckStatement
    \/ BeginInference

SpecStmt == InitChecker /\ [][NextStmt]_vars

\* if c: x = 1 else: x = 2.5, each branch a bare statement or a block
IsIntFloatIf(stmt) ==
    /\ stmt.k = "If"
    /\ Len(stmt.kids) = 3
    /\ stmt.kids[2] \in {AssignmentStmtAST("x", NumI),
                         BlockStmtAST(<<AssignmentStmtAST("x", NumI)>>)}
    /\ stmt.kids[3] \in {AssignmentStmtAST("x", NumF),
                         BlockStmtAST(<<AssignmentStmtAST("x", NumF)>>)}

\* C3: for `if c: x = 1 else: x = 2.5` with x undeclared before the if,
\* checkIf reports no type error and the InferenceContext current after the
\* if records x: Float.
C3_IfMergeUnifies ==
    [][(/\ last'.op = "checkStatement"
        /\ IsIntFloatIf(last'.node)
        /\ lookupVariable(CheckerState, "x") = NullT)
       => (/\ last'.errors = <<>>
           /\ getVariableType(current_context', "x") = FloatType)]_vars

(***************************************************************************)
(* SpecProgram: checkProgram over programs                                 *)
(***************************************************************************)
\* def f(a, b): return a + b
DefF == FunctionAST("f", <<"a", "b">>,
            BlockStmtAST(<<ReturnStmtAST(
                BinaryExprAST("+", VariableExprAST("a"), VariableExprAST("b")))>>))

\* def main(): <stmt>
DefMain(stmt) == FunctionAST("main", <<>>, BlockStmtAST(<<stmt>>))

\* programs that declare f and call f(5, 3)
CallPrograms ==
    {<<DefF, DefMain(s)>> :
        s \in {ExprStmtAST(CallF), AssignmentStmtAST("y", CallF),
               PrintStmtAST(CallF),
               ReturnStmtAST(BinaryExprAST("+", CallF, NumI)),
               AssignmentStmtAST("y", BinaryExprAST("*", CallF, NumI))}}

Programs == CallPrograms
            \cup {<<>>, <<DefF>>,
                  <<DefMain(AssignmentStmtAST("x", NumI)),
                    FunctionAST("g", <<"a">>,
                        BlockStmtAST(<<ReturnStmtAST(VariableExprAST("x"))>>))>>}

ProgramExprs == {CallF, BinaryExprAST("+", CallF, NumI),
                 VariableExprAST("x"), VariableExprAST("y"),
                 VariableExprAST("f"), VariableExprAST("a"),
                 CallExprAST("g", <<NumI>>), CallExprAST("main", <<>>),
                 CallExprAST("f", <<NumF>>), CallExprAST("print", <<CallF>>)}

\* What a load through a null pointer does: the process is stopped
NullDereference == {"crashed"}

\* The first pass of checkProgram reads func->args and func->name of every
\* entry of program->functions
derefsNullFunction(program) ==
    \E i \in 1..Len(program) : program[i] = NullFunctionAST

\* TypeChecker::checkProgram on a non-null ProgramAST with these functions
CheckProgramIn(Ps) ==
    \E program \in Ps :
        IF derefsNullFunction(program)
        THEN \E outcome \in NullDereference :
                /\ last' = [NoCall EXCEPT !.op = "checkProgram",
                                          !.prog = program,
                                          !.crashed = (outcome = "crashed")]
                /\ UNCHANGED <<scopes, current_context, error_messages, snaps>>
                /\ UNCHANGED <<irVars, typeVars>>
        ELSE \E r \in {checkProgram(CheckerState, program)} :
                /\ scopes' = r.st.scopes
                /\ current_context' = r.st.ctx
                /\ error_messages' = r.msgs
                /\ last' = [NoCall EXCEPT !.op = "checkProgram",
                                          !.prog = program,
                                          !.type = r.type, !.errors = r.errors]
                /\ UNCHANGED snaps
                /\ UNCHANGED <<irVars, typeVars>>

CheckProgram == CheckProgramIn(Programs)

\* inferExpressionType called between programs
InferAfterProgram ==
    \E expr \in ProgramExprs :
        \E r \in {inferExpressionType(CheckerState, expr)} :
            /\ last' = [NoCall EXCEPT !.op = "inferExpressionType",
                                      !.node = expr,
                                      !.type = r.type, !.errors = r.errors]
            /\ UNCHANGED <<scopes, current_context, error_messages, snaps>>
            /\ UNCHANGED <<irVars, typeVars>>

NextProgram ==
    \/ CheckProgram
    \/ InferAfterProgram
    \/ BeginInference

SpecProgram == InitChecker /\ [][NextProgram]_vars

\* C4: after checkProgram on a program that declares def f(a,b): return a + b
\* and calls f(5,3), f is (Int, Int) -> Int, the call's inferred type is Int
\* and using the call result in arithmetic raises no type error.
C4_CallInference ==
    (last.op = "checkProgram" /\ last.prog \in CallPrograms)
    => /\ lookup(scopes, "f") = FunctionType(<<IntType, IntType>>, IntType)
       /\ inferExpressionType(CheckerState, CallF).type = IntType
       /\ last.errors = <<>>

(***************************************************************************)
(* Running the passes.  A run is one call of a pass's run() on one defined *)
(* function of the module, as QuillOptimizationManager::runOptimizations   *)
(* and the pass managers make it.                                          *)
(***************************************************************************)
MaxRuns == 2

\* the two ways LLVM is built: NDEBUG or with assertions
Builds == {"release", "assert"}

IdleChecker ==
    /\ scopes = <<EmptyScope>>
    /\ current_context = NullContext
    /\ error_messages = <<>>
    /\ last = NoCall
    /\ snaps = <<>>

InitModule(M, input) ==
    /\ IdleChecker
    /\ IdleTypes
    /\ module = M
    /\ trace = [NoTrace EXCEPT !.input = input]

CanRun == trace.runs < MaxRuns /\ ~trace.aborted

\* the state a function pass leaves after its run on function f
AfterPass(pass, f, st) ==
    /\ module' = [module EXCEPT ![f] = st.F]
    /\ trace' = [trace EXCEPT !.pass = pass, !.before = module,
                              !.runs = @ + 1, !.changed = st.changed,
                              !.aborted = st.aborted,
                              !.erased_in_use = st.erased_in_use,
                              !.blocks_in_use = st.blocks_in_use,
                              !.inlined = {},
                              !.stats = st.stats]
    /\ UNCHANGED <<envVars, typeVars>>

RunConstantFolding ==
    /\ CanRun
    /\ \E f \in {g \in 1..Len(module) : ~isDeclaration(module[g])} :
        \E st \in {runConstantFolding(
                    PassState(module[f], trace.stats, "release"))} :
            AfterPass("ConstantFolding", f, st)

RunDeadCodeElimination ==
    /\ CanRun
    /\ \E f \in {g \in 1..Len(module) : ~isDeclaration(module[g])} :
        \E st \in {runDeadCodeElimination(
                    PassState(module[f], trace.stats, "release"))} :
            AfterPass("DeadCodeElimination", f, st)

RunArithmeticSimplification ==
    /\ CanRun
    /\ \E f \in {g \in 1..Len(module) : ~isDeclaration(module[g])} :
        \E st \in {runArithmeticSimplification(
                    PassState(module[f], trace.stats, "release"))} :
            AfterPass("ArithmeticSimplification", f, st)

RunTypeDirected ==
    /\ CanRun
    /\ \E f \in {g \in 1..Len(module) : ~isDeclaration(module[g])} :
        \E build \in Builds :
            \E st \in {runTypeDirected(
                        PassState(module[f], trace.stats, build), module)} :
                AfterPass("TypeDirected", f, st)

\* QuillFunctionInliningPass::run
RunFunctionInlining ==
    /\ CanRun
    /\ \E st \in {inlineSmallFunctions(module)} :
        /\ module' = st.M
        /\ trace' = [trace EXCEPT !.pass = "FunctionInlining",
                                  !.before = module, !.runs = @ + 1,
                                  !.changed = st.changed,
                                  !.inlined = st.inlined,
                                  !.erased_in_use = {},
                                  !.blocks_in_use = {}]
        /\ UNCHANGED <<envVars, typeVars>>

\* the value the function returns: the operand of the ret that ends it
returned(F, argv) ==
    valueOf(F, instructions(F)[Len(instructions(F))].args[1], argv)

(***************************************************************************)
(* SpecTypeDirected: the type-directed pass on functions that compute one  *)
(* value and return it                                                     *)
(***************************************************************************)
MaxInt == 6

Ret(id, v) == Inst(id, "Ret", <<v>>, "void", "", <<>>)

\* ret (op x, c) on two literal doubles
NumericFunction(op, x, c) ==
    Function("f", 0,
        <<BasicBlock("entry",
            <<Inst(1, op, <<ConstantFP(x, 1), ConstantFP(c, 1)>>, "double",
                   "", <<>>),
              Ret(99, InstRef(1, "double"))>>)>>, 100)

\* ret (uitofp (fcmp pred x, c))
CmpFunction(pred, x, c) ==
    Function("f", 0,
        <<BasicBlock("entry",
            <<Inst(1, "FCmp", <<ConstantFP(x, 1), ConstantFP(c, 1)>>, "i1",
                   pred, <<>>),
              Inst(2, "UIToFP", <<InstRef(1, "i1")>>, "double", "", <<>>),
              Ret(99, InstRef(2, "double"))>>)>>, 100)

Cast(op, src, dst) == [op |-> op, src |-> src, dst |-> dst]

Casts ==
    {Cast("FPToSI", "double", "i16"), Cast("FPToSI", "double", "i8"),
     Cast("SIToFP", "i16", "double"), Cast("SIToFP", "i8", "double"),
     Cast("Trunc", "i16", "i8"), Cast("SExt", "i8", "i16"),
     Cast("ZExt", "i8", "i16"), Cast("BitCast", "double", "double"),
     Cast("BitCast", "i16", "i16")}

\* ret (cast x) on the argument x
SingleCastFunction(c) ==
    Function("f", 1,
        <<BasicBlock("entry",
            <<Inst(1, c.op, <<Argument(1, c.src)>>, c.dst, "", <<>>),
              Ret(99, InstRef(1, c.dst))>>)>>, 100)

\* ret (outer (inner x)) on the argument x
CastFunction(inner, outer) ==
    Function("f", 1,
        <<BasicBlock("entry",
            <<Inst(1, inner.op, <<Argument(1, inner.src)>>, inner.dst, "",
                   <<>>),
              Inst(2, outer.op, <<InstRef(1, inner.dst)>>, outer.dst, "",
                   <<>>),
              Ret(99, InstRef(2, outer.dst))>>)>>, 100)

\* argument values of each type
InputValues(ty) ==
    CASE ty = "double" -> {Frac(-5, 2), Frac(-1, 1), Frac(0, 1), Frac(5, 2),
                           Frac(3, 1)}
      [] ty = "i16" -> {Frac(-1, 1), Frac(0, 1), Frac(1, 1), Frac(200, 1),
                        Frac(300, 1)}
      [] ty = "i8" -> {Frac(-1, 1), Frac(0, 1), Frac(1, 1), Frac(100, 1)}

InitTypeDirected ==
    \/ \E op \in {"FMul", "FDiv", "FAdd", "FSub"}, x \in (-MaxInt)..MaxInt,
          c \in {1, 2, 3, 4, 8} :
            InitModule(<<NumericFunction(op, x, c)>>, <<>>)
    \/ \E pred \in {"OLT", "OEQ", "ULT"}, x \in {0, 1}, c \in {0, 1} :
            InitModule(<<CmpFunction(pred, x, c)>>, <<>>)
    \/ \E c \in Casts : \E v \in InputValues(c.src) :
            InitModule(<<SingleCastFunction(c)>>, <<v>>)
    \/ \E inner \in Casts : \E outer \in {o \in Casts : o.src = inner.dst} :
        \E v \in InputValues(inner.src) :
            InitModule(<<CastFunction(inner, outer)>>, <<v>>)

NextTypeDirected == RunTypeDirected

SpecTypeDirected == InitTypeDirected /\ [][NextTypeDirected]_vars

\* the function computes FMul or FDiv of an integer-valued literal by a
\* literal power of two
isStrengthReduction(F) ==
    LET I == instructions(F)[1]
    IN  /\ I.op \in {"FMul", "FDiv"}
        /\ isIntegerConstant(I.args[1]) /\ isIntegerConstant(I.args[2])
        /\ isPowerOfTwo(I.args[2].n)

\* C1: after the type-directed pass has run on a function returning
\* FMul(x, c) or FDiv(x, c) with x an integer and c a positive power of two,
\* the function returns exactly the value x * c, respectively x / c, it
\* returned before the pass.
C1_StrengthReductionPreservesValue ==
    (/\ trace.pass = "TypeDirected" /\ ~trace.aborted
     /\ isStrengthReduction(trace.before[1]))
    => returned(module[1], trace.input) = returned(trace.before[1], trace.input)

\* the function returns a cast whose source and destination types are the
\* same (1), or a cast of a cast whose source type is the outer cast's
\* destination type (2)
isCastElimination(F) ==
    LET r == instructions(F)[Len(instructions(F))].args[1]
        outer == getInst(F, r.n)
    IN  /\ r.k = "Instruction" /\ isCastInst(outer)
        /\ \/ outer.args[1].ty = outer.ty
           \/ /\ outer.args[1].k = "Instruction"
              /\ isCastInst(getInst(F, outer.args[1].n))
              /\ getInst(F, outer.args[1].n).args[1].ty = outer.ty

\* C2: after the type-directed pass has run on a function returning a
\* same-type cast, or a cast of a cast back to the inner cast's source type,
\* the function returns for the same argument the value it returned before
\* the pass.
C2_CastEliminationPreservesValue ==
    (/\ trace.pass = "TypeDirected" /\ ~trace.aborted
     /\ isCastElimination(trace.before[1]))
    => returned(module[1], trace.input) = returned(trace.before[1], trace.input)

(***************************************************************************)
(* SpecPasses: the four function passes on functions shaped as the code    *)
(* generator (ast.cpp) emits them: the parameter in a stack slot, one      *)
(* arithmetic expression, and the blocks of if statements                  *)
(***************************************************************************)
Alloca(id) == Inst(id, "Alloca", <<>>, "ptr", "", <<>>)

Store(id, v, p) == Inst(id, "Store", <<v, InstRef(p, "ptr")>>, "void", "", <<>>)

Load(id, p) == Inst(id, "Load", <<InstRef(p, "ptr")>>, "double", "", <<>>)

Call(id, callee, args) == Inst(id, "Call", args, "double", callee, <<>>)

Br(id, dest) == Inst(id, "Br", <<>>, "void", "", <<dest>>)

CondBr(id, cond, t, f) ==
    Inst(id, "CondBr", <<InstRef(cond, "i1")>>, "void", "", <<t, f>>)

FCmpONE(id, v) == Inst(id, "FCmp", <<v, ConstantFP(0, 1)>>, "i1", "ONE", <<>>)

PHI(id, v1, bb1, v2, bb2) == Inst(id, "PHI", <<v1, v2>>, "double", "", <<bb1, bb2>>)

D(id) == InstRef(id, "double")

\* FunctionAST::codegen for one parameter, then the expression  a op b
Prefix(op, a, b) ==
    <<Alloca(1), Store(2, Argument(1, "double"), 1), Load(3, 1),
      Inst(4, op, <<a, b>>, "double", "", <<>>)>>

\* IfStmtAST::codegen on the condition %4: the end of the entry block
IfHead == <<FCmpONE(5, D(4)), CondBr(6, 5, "then", "else")>>

\* the blocks that follow the expression %4, by the statements compiled:
\*   ret          return the expression
\*   dead         return 0 (the expression is unused)
\*   if           if e: x = e + 1 else: x = 3
\*   if_return    if e: (if x: return 1 else: return 2) else: x = 3
\*   if_value     if e: (if x: return 1 else: return 2); x = x + 1 else: x = 3
\*   after_return if e: return 1 else: return 2; if x: x = x + 1 else: x = 3
Blocks(tail, prefix) ==
    CASE tail = "ret" -> <<BasicBlock("entry", prefix \o <<Ret(5, D(4))>>)>>
      [] tail = "dead" ->
            <<BasicBlock("entry", prefix \o <<Ret(5, ConstantFP(0, 1))>>)>>
      [] tail = "if" ->
            <<BasicBlock("entry", prefix \o IfHead),
              BasicBlock("then", <<Inst(7, "FAdd", <<D(4), ConstantFP(1, 1)>>,
                                        "double", "", <<>>),
                                   Store(8, D(7), 1), Br(9, "ifcont")>>),
              BasicBlock("else", <<Store(10, ConstantFP(3, 1), 1),
                                   Br(11, "ifcont")>>),
              BasicBlock("ifcont", <<PHI(12, D(7), "then",
                                         ConstantFP(3, 1), "else"),
                                     Ret(13, D(12))>>)>>
      [] tail \in {"if_return", "if_value"} ->
            <<BasicBlock("entry", prefix \o IfHead),
              BasicBlock("then", <<Load(7, 1), FCmpONE(8, D(7)),
                                   CondBr(9, 8, "then1", "else1")>>),
              BasicBlock("then1", <<Ret(10, ConstantFP(1, 1))>>),
              BasicBlock("else1", <<Ret(11, ConstantFP(2, 1))>>),
              BasicBlock("ifcont1",
                    IF tail = "if_value"
                    THEN <<Load(12, 1),
                           Inst(16, "FAdd", <<D(12), ConstantFP(1, 1)>>,
                                "double", "", <<>>),
                           Store(17, D(16), 1), Br(18, "ifcont")>>
                    ELSE <<Br(12, "ifcont")>>),
              BasicBlock("else", <<Store(13, ConstantFP(3, 1), 1),
                                   Br(14, "ifcont")>>),
              BasicBlock("ifcont",
                    <<PHI(15, IF tail = "if_value" THEN D(16)
                              ELSE ConstantFP(0, 1), "ifcont1",
                          ConstantFP(3, 1), "else"),
                      Ret(19, D(15))>>)>>
      [] tail = "after_return" ->
            <<BasicBlock("entry", prefix \o IfHead),
              BasicBlock("then", <<Ret(7, ConstantFP(1, 1))>>),
              BasicBlock("else", <<Ret(8, ConstantFP(2, 1))>>),
              BasicBlock("ifcont", <<Load(9, 1), FCmpONE(10, D(9)),
                                     CondBr(11, 10, "then2", "else2")>>),
              BasicBlock("then2", <<Load(12, 1),
                                    Inst(13, "FAdd", <<D(12), ConstantFP(1, 1)>>,
                                         "double", "", <<>>),
                                    Store(14, D(13), 1), Br(15, "ifcont2")>>),
              BasicBlock("else2", <<Store(16, ConstantFP(3, 1), 1),
                                    Br(17, "ifcont2")>>),
              BasicBlock("ifcont2", <<PHI(18, D(13), "then2",
                                          ConstantFP(3, 1), "else2"),
                                      Ret(19, D(18))>>)>>

Tails == {"ret", "dead", "if", "if_return", "if_value", "after_return"}

InitPasses ==
    \E op \in {"FAdd", "FSub", "FMul", "FDiv"},
       a \in {D(3), ConstantFP(2, 1)},
       b \in {D(3), ConstantFP(0, 1), ConstantFP(1, 1), ConstantFP(2, 1),
              ConstantFP(4, 1)},
       tail \in Tails :
        InitModule(<<Function("f", 1, Blocks(tail, Prefix(op, a, b)), 100)>>,
                   <<>>)

NextPasses ==
    \/ RunConstantFolding
    \/ RunDeadCodeElimination
    \/ RunArithmeticSimplification
    \/ RunTypeDirected

SpecPasses == InitPasses /\ [][NextPasses]_vars

\* C7: in every state no surviving instruction (phi nodes included) has an
\* operand naming an erased instruction or an erased block, and during the
\* last pass nothing was erased while a surviving instruction still named it.
C7_NoDanglingUses ==
    /\ \A f \in 1..Len(module) : danglingUses(module[f]) = {}
    /\ trace.erased_in_use = {}
    /\ trace.blocks_in_use = {}

(***************************************************************************)
(* SpecInline: the function-inlining pass on modules of main, two one-     *)
(* parameter functions A and B, and the external print_double              *)
(***************************************************************************)
\* a function whose body calls the functions cs in turn, each on the
\* parameter (on a literal when there is no parameter), and returns the
\* last result
Body(name, nargs, cs) ==
    LET slot == IF nargs > 0
                THEN <<Alloca(1), Store(2, Argument(1, "double"), 1)>>
                ELSE <<>>
        call(i) == IF nargs > 0
                   THEN <<Load(1 + 2 * i, 1),
                          Call(2 + 2 * i, cs[i], <<D(1 + 2 * i)>>)>>
                   ELSE <<Call(2 + 2 * i, cs[i], <<ConstantFP(5, 1)>>)>>
        calls == IF Len(cs) = 0 THEN <<>>
                 ELSE IF Len(cs) = 1 THEN call(1)
                 ELSE call(1) \o call(2)
        result == IF Len(cs) = 0
                  THEN IF nargs > 0 THEN <<Load(3, 1), Ret(4, D(3))>>
                       ELSE <<Ret(4, ConstantFP(0, 1))>>
                  ELSE <<Ret(3 + 2 * Len(cs), D(2 + 2 * Len(cs)))>>
    IN  Function(name, nargs,
                 <<BasicBlock("entry", slot \o calls \o result)>>, 100)

print_double == Function("print_double", 1, <<>>, 1)

InitInline ==
    \E a \in {<<>>, <<"A">>, <<"B">>, <<"print_double">>, <<"B", "B">>},
       b \in {<<>>, <<"B">>, <<"A">>, <<"print_double">>, <<"A", "A">>},
       m \in {<<"A">>, <<"B">>, <<"A", "B">>},
       mainFirst \in BOOLEAN :
        InitModule(IF mainFirst
                   THEN <<print_double, Body("main", 0, m), Body("A", 1, a),
                          Body("B", 1, b)>>
                   ELSE <<print_double, Body("A", 1, a), Body("B", 1, b),
                          Body("main", 0, m)>>,
                   <<>>)

NextInline == RunFunctionInlining

SpecInline == InitInline /\ [][NextInline]_vars

\* C6: no call inlined by the last run of the inlining pass had a callee
\* that was self-recursive, directly (its body calls it) or one level
\* indirectly (its body calls a function whose body calls it back).
C6_NeverInlinesRecursive ==
    \A e \in trace.inlined : ~e.direct /\ ~e.indirect

(***************************************************************************)
(* The type model driven directly: SpecEquals, SpecAssign, SpecInstantiate *)
(* and SpecSolve.  The operands are every type the constructors build from *)
(* member lists of up to MaxMembers entries.                               *)
(***************************************************************************)
MaxMembers == 2

SeqsUpTo(S, n) == UNION {[1..k -> S] : k \in 0..n}

\* The types used as element, member, parameter and return types
Members == {IntType, FloatType, GenericType("T")}

Leaves ==
    {IntType, FloatType, BoolType, StringType, VoidType, UnknownType,
     ErrorType("type error"), GenericType("T"), GenericType("U")}

Variants == {Variant("a", IntType), Variant("a", FloatType),
             Variant("b", GenericType("T"))}

Methods == {Method("m", FunctionType(<<>>, IntType)),
            Method("m", FunctionType(<<>>, FloatType)),
            Method("n", FunctionType(<<GenericType("T")>>, IntType))}

Types ==
    Leaves
    \cup {ListType(m) : m \in Members}
    \cup {TupleType(ms) : ms \in SeqsUpTo(Members, MaxMembers)}
    \cup {UnionType(ms) : ms \in SeqsUpTo(Members, MaxMembers)}
    \cup {FunctionType(ms, r) :
             ms \in SeqsUpTo(Members, MaxMembers - 1), r \in Members}
    \cup {DiscriminatedUnionType(vs) : vs \in SeqsUpTo(Variants, MaxMembers)}
    \cup {InterfaceType("I", ms) : ms \in SeqsUpTo(Methods, MaxMembers)}

IdleModule ==
    /\ module = <<>>
    /\ trace = NoTrace

InitTypes(As, Bs, Bindings) ==
    /\ IdleChecker
    /\ IdleModule
    /\ type_bindings \in Bindings
    /\ \E a \in As, b \in Bs : tcall = [NoTypeCall EXCEPT !.a = a, !.b = b]

Returned(op, holds, type) ==
    /\ tcall.op = "none"
    /\ tcall' = [tcall EXCEPT !.op = op, !.holds = holds, !.type = type]
    /\ UNCHANGED <<envVars, irVars>>

---------------------------------------------------------------------------
(* SpecEquals: a->equals(b) *)

CallEquals ==
    /\ Returned("equals", equals(tcall.a, tcall.b), NullT)
    /\ UNCHANGED type_bindings

InitEquals == InitTypes(Types, Types, {NoBindings})

NextEquals == CallEquals

SpecEquals == InitEquals /\ [][NextEquals]_vars

\* C11: equals is symmetric on every pair of types other than Unknown and
\* Error: a->equals(b) returns what b->equals(a) returns.
C11_EqualsSymmetric ==
    (/\ tcall.op = "equals"
     /\ ~isUnknown(tcall.a) /\ ~isError(tcall.a)
     /\ ~isUnknown(tcall.b) /\ ~isError(tcall.b))
    => (tcall.holds <=> equals(tcall.b, tcall.a))

\* C12: equals(T, T) is true for every type T that is not Unknown or Error,
\* and equals(U, X) is false for every X when U is Unknown or Error.
C12_ReflexiveExceptUnknownError ==
    tcall.op = "equals" =>
        /\ (tcall.a = tcall.b /\ ~isUnknown(tcall.a) /\ ~isError(tcall.a))
               => tcall.holds
        /\ (isUnknown(tcall.a) \/ isError(tcall.a)) => ~tcall.holds

\* A one-to-one pairing of a's members with b's members in which every pair
\* is structurally equal
PerfectMatching(a, b) ==
    /\ Len(a.subs) = Len(b.subs)
    /\ \E p \in [1..Len(a.subs) -> 1..Len(b.subs)] :
          /\ \A i, j \in 1..Len(a.subs) : p[i] = p[j] => i = j
          /\ \A i \in 1..Len(a.subs) : equals(a.subs[i], b.subs[p[i]])

\* C13: two unions are equal exactly when their members can be paired one
\* to one with every pair structurally equal.
C13_UnionEqualsIsPerfectMatching ==
    (tcall.op = "equals" /\ tcall.a.kind = "UNION" /\ tcall.b.kind = "UNION")
    => (tcall.holds <=> PerfectMatching(tcall.a, tcall.b))

---------------------------------------------------------------------------
(* SpecAssign: a->isAssignableFrom(b) and promoteNumericTypes(a, b); b may *)
(* be a null pointer                                                       *)

CallIsAssignableFrom ==
    /\ Returned("isAssignableFrom", isAssignableFrom(tcall.a, tcall.b), NullT)
    /\ UNCHANGED type_bindings

CallPromoteNumericTypes ==
    /\ Returned("promoteNumericTypes", FALSE,
                promoteNumericTypes(tcall.a, tcall.b))
    /\ UNCHANGED type_bindings

InitAssign == InitTypes(Types, Types \cup {NullT}, {NoBindings})

NextAssign ==
    \/ CallIsAssignableFrom
    \/ CallPromoteNumericTypes

SpecAssign == InitAssign /\ [][NextAssign]_vars

\* C14: Float accepts exactly Float and Int; Int, Bool, String and Void each
\* accept exactly their own kind (so Int does not accept Float); Unknown
\* accepts everything.
C14_AssignabilityOnPrimitives ==
    tcall.op = "isAssignableFrom" =>
        /\ isFloat(tcall.a) => (tcall.holds <=> tcall.b.kind \in {"FLOAT", "INT"})
        /\ tcall.a.kind \in {"INT", "BOOL", "STRING", "VOID"}
               => (tcall.holds <=> tcall.b.kind = tcall.a.kind)
        /\ isUnknown(tcall.a) => tcall.holds

C14_Witness ==
    /\ tcall.op = "isAssignableFrom"
    /\ tcall.a = FloatType /\ tcall.b = IntType
    /\ tcall.holds

\* C15: promoteNumericTypes gives Float when both operands are numeric and
\* one is Float, Int when both are Int and an Error type otherwise, and gives
\* the same answer with the operands exchanged.
C15_PromotionRule ==
    tcall.op = "promoteNumericTypes" =>
        /\ IF /\ isNumeric(tcall.a) /\ isNumeric(tcall.b)
              /\ (isFloat(tcall.a) \/ isFloat(tcall.b))
           THEN tcall.type = FloatType
           ELSE IF isInteger(tcall.a) /\ isInteger(tcall.b)
           THEN tcall.type = IntType
           ELSE isError(tcall.type)
        /\ tcall.type = promoteNumericTypes(tcall.b, tcall.a)

C15_Witness ==
    /\ tcall.op = "promoteNumericTypes"
    /\ tcall.a = IntType /\ tcall.b = FloatType
    /\ tcall.type = FloatType

---------------------------------------------------------------------------
(* SpecInstantiate: instantiate(a) under a binding map *)

BindingMaps ==
    {NoBindings,
     [NoBindings EXCEPT !["T"] = IntType],
     [NoBindings EXCEPT !["T"] = ListType(GenericType("U"))],
     [NoBindings EXCEPT !["T"] = FloatType, !["U"] = IntType]}

CallInstantiate ==
    /\ Returned("instantiate", FALSE, instantiate(type_bindings, tcall.a))
    /\ UNCHANGED type_bindings

InitInstantiate == InitTypes(Types, {NullT}, BindingMaps)

NextInstantiate == CallInstantiate

SpecInstantiate == InitInstantiate /\ [][NextInstantiate]_vars

RECURSIVE Substituted(_, _)
\* t with every Generic parameter that has a binding replaced by its bound type
Substituted(bindings, t) ==
    IF t.kind = "GENERIC"
    THEN IF bindings[t.name] # NullT THEN bindings[t.name] ELSE t
    ELSE [t EXCEPT !.subs = [i \in 1..Len(t.subs) |->
                                Substituted(bindings, t.subs[i])]]

\* C16: instantiate returns its argument with every bound Generic parameter
\* replaced by its bound type and everything else rebuilt in place, leaves the
\* binding map alone, and with no bindings returns a type equal to its argument.
C16_InstantiateIsSubstitution ==
    tcall.op = "instantiate" =>
        /\ tcall.type = Substituted(type_bindings, tcall.a)
        /\ type_bindings = NoBindings => equals(tcall.type, tcall.a)

---------------------------------------------------------------------------
(* SpecSolve: TypeConstraints::solve(instantiator), one step per loop test *)
(* or loop body.  An EQUALS constraint has both sides; the other kinds are *)
(* added with a left side only.                                            *)

MaxConstraints == 2

MaxPasses == 6

Constraints ==
    {Constraint("EQUALS", l, r) :
        l \in {GenericType("T"), GenericType("U"), IntType},
        r \in {GenericType("T"), IntType, FloatType}}
    \cup {Constraint("NUMERIC", l, NullT) : l \in {GenericType("T"), IntType}}
    \cup {Constraint("COMPARABLE", GenericType("U"), NullT)}
    \cup {Constraint("SUBTYPE", GenericType("V"), IntType),
          Constraint("IMPLEMENTS", GenericType("V"), NullT)}

InitialBindings ==
    {NoBindings,
     [NoBindings EXCEPT !["T"] = FloatType],
     [NoBindings EXCEPT !["U"] = ListType(IntType), !["V"] = IntType]}

InitSolve ==
    /\ IdleChecker
    /\ IdleModule
    /\ type_bindings \in InitialBindings
    /\ \E cs \in SeqsUpTo(Constraints, MaxConstraints) :
          tcall = [NoTypeCall EXCEPT !.constraints = cs]

\* bool changed = true;
SolveEnter ==
    /\ tcall.pc = "idle"
    /\ tcall' = [tcall EXCEPT !.op = "solve", !.pc = "while", !.changed = TRUE,
                              !.start = type_bindings]
    /\ UNCHANGED <<envVars, irVars, type_bindings>>

\* while (changed) { changed = false; ... }  return true;
SolveWhile ==
    /\ tcall.pc = "while"
    /\ IF tcall.changed
       THEN /\ tcall.passes < MaxPasses
            /\ tcall' = [tcall EXCEPT !.changed = FALSE, !.pc = "for", !.i = 1,
                                      !.passes = @ + 1,
                                      !.first = type_bindings]
       ELSE tcall' = [tcall EXCEPT !.pc = "done", !.holds = TRUE]
    /\ UNCHANGED <<envVars, irVars, type_bindings>>

\* for (const auto& constraint : constraints) { switch ... }
SolveFor ==
    /\ tcall.pc = "for"
    /\ IF tcall.i <= Len(tcall.constraints)
       THEN \E r \in {solveConstraint(type_bindings,
                                      tcall.constraints[tcall.i])} :
               /\ type_bindings' = r.bindings
               /\ tcall' = [tcall EXCEPT !.i = @ + 1,
                                         !.changed = @ \/ r.changed]
       ELSE /\ tcall' = [tcall EXCEPT !.pc = "while"]
            /\ UNCHANGED type_bindings
    /\ UNCHANGED <<envVars, irVars>>

NextSolve ==
    \/ SolveEnter
    \/ SolveWhile
    \/ SolveFor

\* solve is one sequential call: once entered it keeps running
SpecSolve == InitSolve /\ [][NextSolve]_vars /\ WF_vars(NextSolve)

\* The names of the generic parameters the constraints mention
genericNames(cs) ==
    {cs[i].left.name : i \in {j \in 1..Len(cs) : cs[j].left.kind = "GENERIC"}}
    \cup {cs[i].right.name : i \in {j \in 1..Len(cs) : cs[j].right.kind = "GENERIC"}}

\* The names bound in `after` and not in `before`
newlyBound(before, after) ==
    {n \in GenericNames : before[n] = NullT /\ after[n] # NullT}

MaxFunctions == 2

OkStmt == ReturnStmtAST(NumI)

\* a variable no function of these programs defines
UndefinedIn(n) == IF n = "f" THEN "x" ELSE "y"

BadVariable(n) == ReturnStmtAST(VariableExprAST(UndefinedIn(n)))

\* h is never declared
BadCall == ExprStmtAST(CallExprAST("h", <<>>))

Bodies(n) ==
    {NullNode, BadVariable(n),
     BlockStmtAST(<<>>), BlockStmtAST(<<OkStmt>>),
     BlockStmtAST(<<BadVariable(n)>>), BlockStmtAST(<<BadCall>>),
     BlockStmtAST(<<BadVariable(n), OkStmt>>),
     BlockStmtAST(<<BadVariable(n), BadCall>>),
     BlockStmtAST(<<OkStmt, BadCall>>)}

SiblingFunctions ==
    UNION {{FunctionAST(n, <<>>, b) : b \in Bodies(n)} : n \in {"f", "g"}}

SiblingPrograms == SeqsUpTo(SiblingFunctions, MaxFunctions)

CheckSiblings ==
    /\ last.op = "none"
    /\ CheckProgramIn(SiblingPrograms)

NextSiblings == CheckSiblings

SpecSiblings == InitChecker /\ [][NextSiblings]_vars

RECURSIVE Concat(_, _)
\* the sequences seqs[i], seqs[i + 1], ... joined in order
Concat(seqs, i) ==
    IF i > Len(seqs) THEN <<>> ELSE seqs[i] \o Concat(seqs, i + 1)

RECURSIVE ExpectedErrors(_)
\* the errors the statements of these bodies have, in order
ExpectedErrors(stmt) ==
    IF stmt = NullNode THEN <<"Null statement AST">>
    ELSE IF stmt.k = "Block"
    THEN Concat([i \in 1..Len(stmt.kids) |-> ExpectedErrors(stmt.kids[i])], 1)
    ELSE IF stmt = BadCall THEN <<"Undefined function: h">>
    ELSE IF stmt = BadVariable("f") THEN <<"Undefined variable: x">>
    ELSE IF stmt = BadVariable("g") THEN <<"Undefined variable: y">>
    ELSE <<>>

\* C18: the error list checkProgram returns holds the errors of every
\* declared function, each function's errors once and in declaration order,
\* whatever errors the functions before it had.
C18_SiblingsAllChecked ==
    last.op = "checkProgram" =>
        /\ ~last.crashed
        /\ last.errors =
              Concat([i \in 1..Len(last.prog) |->
                         ExpectedErrors(last.prog[i].body)], 1)
        /\ error_messages = last.errors

C18_Witness ==
    /\ last.op = "checkProgram"
    /\ Len(last.prog) = 2
    /\ Len(ExpectedErrors(last.prog[1].body)) = 2
    /\ Len(ExpectedErrors(last.prog[2].body)) = 2
    /\ Len(last.errors) = 4

(***************************************************************************)
(* SpecNull: the checker's entry points on syntax trees with a null node.  *)
(* A null else branch and a null return value are how the tree says that   *)
(* the if has no else and the return no value; they are not among the      *)
(* null positions below.                                                   *)
(***************************************************************************)
NullOperandExprs ==
    {NullNode}
    \cup {BinaryExprAST(op, NullNode, r) :
            op \in {"+", "<"}, r \in {NullNode, VariableExprAST("x")}}
    \cup {BinaryExprAST(op, NumI, NullNode) : op \in {"+", "<"}}
    \cup {UnaryExprAST(op, NullNode) : op \in {"-", "!"}}
    \cup {CallExprAST("print", <<NullNode>>),
          CallExprAST("g", <<NumI, NullNode>>),
          BinaryExprAST("+", NumI, UnaryExprAST("-", NullNode))}

\* statements with a null expression in them, or a null statement
NullStmts ==
    {NullNode}
    \cup UNION {{AssignmentStmtAST("x", e), ExprStmtAST(e), PrintStmtAST(e),
                 ReturnStmtAST(BinaryExprAST("+", e, NumI)),
                 IfStmtAST(e, OkStmt), IfElseStmtAST(e, OkStmt, OkStmt),
                 WhileStmtAST(e, OkStmt)} : e \in NullOperandExprs}
    \cup {IfStmtAST(NumI, NullNode), IfElseStmtAST(NumI, NullNode, OkStmt),
          WhileStmtAST(NumI, NullNode),
          BlockStmtAST(<<NullNode>>), BlockStmtAST(<<OkStmt, NullNode>>),
          BlockStmtAST(<<AssignmentStmtAST("x", NumI), NullNode, OkStmt>>),
          IfStmtAST(NumI, BlockStmtAST(<<NullNode>>))}

\* functions with a null body or a null node in the body
NullFunctions ==
    {FunctionAST("f", <<"a">>, b) :
        b \in {NullNode, BlockStmtAST(<<NullNode>>),
               BlockStmtAST(<<ReturnStmtAST(BinaryExprAST("+",
                                VariableExprAST("a"), NullNode))>>),
               BlockStmtAST(<<IfStmtAST(NullNode, OkStmt)>>)}}

\* programs with a null entry in the function list or a null node below it
NullPrograms ==
    {<<NullFunctionAST>>, <<DefF, NullFunctionAST>>, <<NullFunctionAST, DefF>>}
    \cup {<<fn>> : fn \in NullFunctions}
    \cup {<<DefF, fn>> : fn \in NullFunctions}

\* checkProgram(nullptr)
CheckProgramNull ==
    /\ last' = [NoCall EXCEPT !.op = "checkProgram(null)",
                              !.errors = <<"Null program AST">>]
    /\ UNCHANGED <<scopes, current_context, error_messages, snaps>>
    /\ UNCHANGED <<irVars, typeVars>>

CheckNullProgram == CheckProgramIn(NullPrograms)

CheckNullFunction ==
    \E function \in NullFunctions \cup {NullFunctionAST} :
        \E r \in {checkFunction(CheckerState, function)} :
            /\ ~current_context.isNull
            /\ scopes' = r.st.scopes
            /\ current_context' = r.st.ctx
            /\ last' = [NoCall EXCEPT !.op = "checkFunction",
                                      !.prog = <<function>>,
                                      !.type = r.type, !.errors = r.errors]
            /\ UNCHANGED <<error_messages, snaps>>
            /\ UNCHANGED <<irVars, typeVars>>

CheckNullStatement ==
    \E stmt \in NullStmts :
        \E r \in {checkStatement(CheckerState, stmt)} :
            /\ ~current_context.isNull
            /\ scopes' = r.st.scopes
            /\ current_context' = r.st.ctx
            /\ last' = [NoCall EXCEPT !.op = "checkStatement", !.node = stmt,
                                      !.type = r.type, !.errors = r.errors]
            /\ UNCHANGED <<error_messages, snaps>>
            /\ UNCHANGED <<irVars, typeVars>>

InferNullExpression ==
    \E expr \in NullOperandExprs :
        \E r \in {inferExpressionType(CheckerState, expr)} :
            /\ last' = [NoCall EXCEPT !.op = "inferExpressionType",
                                      !.node = expr,
                                      !.type = r.type, !.errors = r.errors]
            /\ UNCHANGED <<scopes, current_context, error_messages, snaps>>
            /\ UNCHANGED <<irVars, typeVars>>

NextNull ==
    \/ CheckProgramNull
    \/ CheckNullProgram
    \/ CheckNullFunction
    \/ CheckNullStatement
    \/ InferNullExpression
    \/ BeginInference

SpecNull == InitChecker /\ [][NextNull]_vars

\* C19: every entry point, given a tree with a null node, completes without
\* reading through the null node and returns a result with at least one error.
C19_NullNodeSafety ==
    last.op \in {"checkProgram(null)", "checkProgram", "checkFunction",
                 "checkStatement", "inferExpressionType"}
    => (~last.crashed /\ last.errors # <<>>)

(***************************************************************************)
(* QuillOptimizationManager.  function_pm is the list of the passes added  *)
(* to the function pass manager, in order.  type_directed_pass is the      *)
(* object the manager owns (has_type_directed_pass says the unique_ptr is  *)
(* set, own_stats are the counters of that object); pm_stats are the       *)
(* counters of the pass object the function pass manager runs.  stats is   *)
(* the OptimizationStats snapshot getStats() returns.  performed records   *)
(* what the Type-Directed pass did during the last runOptimizations call.  *)
(***************************************************************************)
OptimizationLevels == {"O0", "O1", "O2", "O3"}

\* what  function_pm->addPass(*type_directed_pass)  stores in the pass
\* manager: a copy of the manager's object (the pass manager owns its
\* passes), or the object itself where the pass is held by reference
AddPassOutcomes == {"copy", "reference"}

NoOptimizationStats ==
    [instructions_eliminated |-> 0, constants_folded |-> 0,
     functions_inlined |-> 0, loops_optimized |-> 0,
     type_specializations |-> 0, type_casts_eliminated |-> 0,
     numeric_operations_optimized |-> 0, divisions_to_shifts |-> 0,
     multiplications_to_shifts |-> 0]

\* QuillOptimizationManager::addBasicOptimizations
addBasicOptimizations(pm) == pm \o <<"InstCombine", "SimplifyCFG">>

\* QuillOptimizationManager::addAdvancedOptimizations
addAdvancedOptimizations(pm) == pm \o <<"Reassociate", "GVN">>

\* setupPassPipeline adding to the pass manager it already has instead of
\* making a new one
setupPassPipeline_append(mgr) ==
    IF mgr.opt_level = "O0" THEN mgr
    ELSE IF mgr.opt_level = "O1"
    THEN [mgr EXCEPT !.function_pm = addBasicOptimizations(@)]
    ELSE IF mgr.opt_level = "O2"
    THEN [mgr EXCEPT !.function_pm =
                        addAdvancedOptimizations(addBasicOptimizations(@))]
    ELSE [mgr EXCEPT !.function_pm =
                        addAdvancedOptimizations(addBasicOptimizations(@))
                        \o <<"ArithmeticSimplification", "TypeDirected">>,
                     !.has_type_directed_pass = TRUE,
                     !.own_stats = NoStats,
                     !.pm_stats = NoStats]

\* QuillOptimizationManager::setupPassPipeline: a new function pass manager;
\* only O3 makes a new Type-Directed pass, the other levels leave the
\* unique_ptr as it was
setupPassPipeline(mgr) ==
    IF mgr.opt_level = "O0" THEN [mgr EXCEPT !.function_pm = <<>>]
    ELSE IF mgr.opt_level = "O1"
    THEN [mgr EXCEPT !.function_pm = addBasicOptimizations(<<>>)]
    ELSE IF mgr.opt_level = "O2"
    THEN [mgr EXCEPT !.function_pm =
                        addAdvancedOptimizations(addBasicOptimizations(<<>>))]
    ELSE [mgr EXCEPT !.function_pm =
                        addAdvancedOptimizations(addBasicOptimizations(<<>>))
                        \o <<"ArithmeticSimplification", "TypeDirected">>,
                     !.has_type_directed_pass = TRUE,
                     !.own_stats = NoStats,
                     !.pm_stats = NoStats]

\* QuillOptimizationManager::QuillOptimizationManager
QuillOptimizationManager(level, add_pass) ==
    setupPassPipeline([opt_level |-> level, add_pass |-> add_pass,
                       function_pm |-> <<>>,
                       has_type_directed_pass |-> FALSE,
                       own_stats |-> NoStats, pm_stats |-> NoStats,
                       stats |-> NoOptimizationStats,
                       performed |-> NoStats, build |-> "release"])

\* the state of one runOptimizations call: the manager, the module and
\* whether a pass stopped the process
RunState(mgr, M) == [mgr |-> mgr, M |-> M, aborted |-> FALSE]

\* one pass of function_pm on function f of the module.  InstCombine,
\* SimplifyCFG, Reassociate and GVN are LLVM's own passes: the functions
\* this model runs them on are single blocks of calls to functions of the
\* module, which they leave as they are.
runPass(rs, pass, f) ==
    IF rs.aborted THEN rs
    ELSE IF pass = "ArithmeticSimplification"
    THEN The({[rs EXCEPT !.M[f] = st.F] :
              st \in {runArithmeticSimplification(
                        PassState(rs.M[f], NoStats, rs.mgr.build))}})
    ELSE IF pass = "TypeDirected"
    THEN The({[rs EXCEPT !.M[f] = st.F, !.aborted = st.aborted,
                         !.mgr.pm_stats = st.stats,
                         !.mgr.own_stats =
                            IF rs.mgr.add_pass = "reference" THEN st.stats
                            ELSE @] :
              st \in {runTypeDirected(
                        PassState(rs.M[f], rs.mgr.pm_stats, rs.mgr.build),
                        rs.M)}})
    ELSE rs

\* function_pm->run(F, FAM)
runFunctionPasses(rs, f) ==
    IF isDeclaration(rs.M[f]) THEN rs
    ELSE ForEach(LAMBDA r, pass : runPass(r, pass, f),
                 rs, rs.mgr.function_pm, 1)

\* the five counters runOptimizations copies from type_directed_pass
collectStats(stats, type_stats) ==
    [stats EXCEPT
        !.type_specializations = type_stats.specializations_applied,
        !.type_casts_eliminated = type_stats.type_casts_eliminated,
        !.numeric_operations_optimized = type_stats.numeric_optimizations,
        !.divisions_to_shifts = type_stats.divisions_to_shifts,
        !.multiplications_to_shifts = type_stats.multiplication_to_shifts]

\* counters after minus counters before
statsSince(before, after) ==
    [c \in DOMAIN after |-> after[c] - before[c]]

\* QuillOptimizationManager::runOptimizations
runOptimizations(mgr, M) ==
    The({IF rs.aborted THEN rs
         ELSE [rs EXCEPT
                !.mgr.performed = statsSince(mgr.pm_stats, rs.mgr.pm_stats),
                !.mgr.stats =
                    IF rs.mgr.has_type_directed_pass
                    THEN collectStats(NoOptimizationStats, rs.mgr.own_stats)
                    ELSE NoOptimizationStats] :
         rs \in {ForEach(runFunctionPasses, RunState(mgr, M),
                         [f \in 1..Len(M) |-> f], 1)}})

RunOptimizations ==
    /\ CanRun
    /\ \E build \in Builds :
        \E rs \in {runOptimizations([trace.manager EXCEPT !.build = build],
                                    module)} :
            /\ module' = rs.M
            /\ trace' = [trace EXCEPT !.pass = "runOptimizations",
                                      !.before = module,
                                      !.runs = @ + 1,
                                      !.aborted = rs.aborted,
                                      !.manager = rs.mgr]
    /\ UNCHANGED <<envVars, typeVars>>

\* QuillOptimizationManager::setOptimizationLevel
SetOptimizationLevel ==
    /\ ~trace.aborted
    /\ \E level \in OptimizationLevels :
        /\ level # trace.manager.opt_level
        /\ trace' = [trace EXCEPT
                        !.pass = "setOptimizationLevel",
                        !.manager = setupPassPipeline(
                                        [@ EXCEPT !.opt_level = level])]
    /\ UNCHANGED <<module, envVars, typeVars>>

\* main.cpp builds the manager with the level of the command line; the
\* modules are print_double, a function A of one argument and main, A and
\* main being sequences of calls
InitManager ==
    \E level \in OptimizationLevels, add_pass \in AddPassOutcomes :
        \E M \in {<<print_double, Body("A", 1, a), Body("main", 0, m)>> :
                    a \in {<<>>, <<"print_double">>, <<"A">>},
                    m \in {<<"A">>, <<"A", "A">>, <<"print_double">>}} :
            /\ IdleChecker
            /\ IdleTypes
            /\ module = M
            /\ trace = [NoTrace EXCEPT
                            !.manager = QuillOptimizationManager(level,
                                                                 add_pass)]

NextManager ==
    \/ RunOptimizations
    \/ SetOptimizationLevel

SpecManager == InitManager /\ [][NextManager]_vars

\* C20: after runOptimizations at O3 each of the five counters of the
\* manager's statistics snapshot equals the number of rewrites or
\* candidates the Type-Directed pass performed on the module during that
\* call; counts of earlier calls are not included.
C20_CountersSurfaced ==
    (/\ trace.pass = "runOptimizations"
     /\ ~trace.aborted
     /\ trace.manager.opt_level = "O3")
    => trace.manager.stats =
        collectStats(NoOptimizationStats, trace.manager.performed)

(***************************************************************************)
(* Pipeline selection by level (SpecManager).                              *)
(***************************************************************************)
\* a is a proper prefix of b
IsProperPrefix(a, b) ==
    /\ Len(a) < Len(b)
    /\ \A i \in 1..Len(a) : a[i] = b[i]

\* the passes a manager freshly constructed at level installs
installed(level) ==
    QuillOptimizationManager(level, trace.manager.add_pass).function_pm

QuillPasses == {"ArithmeticSimplification", "TypeDirected"}

\* C21: the sequence installed for a level is a proper prefix of the one
\* installed for the next level, O0 installs nothing, Arithmetic
\* Simplification then Type-Directed are the last two passes at O3 and at
\* no lower level, and a manager whose level was set by the constructor or
\* by setOptimizationLevel(L) holds exactly the sequence of a manager
\* freshly constructed at L.
C21_PipelineAdditive ==
    /\ IsProperPrefix(installed("O0"), installed("O1"))
    /\ IsProperPrefix(installed("O1"), installed("O2"))
    /\ IsProperPrefix(installed("O2"), installed("O3"))
    /\ installed("O0") = <<>>
    /\ SubSeq(installed("O3"), Len(installed("O3")) - 1, Len(installed("O3")))
        = <<"ArithmeticSimplification", "TypeDirected">>
    /\ \A level \in {"O0", "O1", "O2"} :
        \A i \in 1..Len(installed(level)) :
            installed(level)[i] \notin QuillPasses
    /\ trace.manager.function_pm = installed(trace.manager.opt_level)

\* setOptimizationLevel(O3) on a manager built at O2 that has already run
C21_Witness ==
    /\ trace.pass = "setOptimizationLevel"
    /\ trace.runs > 0
    /\ trace.manager.opt_level = "O3"
    /\ Len(trace.manager.function_pm) = 6

(***************************************************************************)
(* Constant folding run once and run again (SpecPasses).                   *)
(***************************************************************************)
\* a literal constant operand
isLiteral(v) == v.k \in {"ConstantFP", "ConstantInt"}

\* a division or modulo by the literal zero
dividesByZero(I) ==
    /\ I.op \in {"FDiv", "FRem"}
    /\ I.args[2].k = "ConstantFP" /\ I.args[2].n = 0

\* the binary operators of F whose two operands are literals
literalBinaryOperators(F) ==
    {i \in 1..Len(instructions(F)) :
        /\ isBinaryOperator(instructions(F)[i])
        /\ isLiteral(instructions(F)[i].args[1])
        /\ isLiteral(instructions(F)[i].args[2])}

\* the function the last pass ran on
lastFunction == module[1]

\* C22: after one run of the Constant Folding pass no binary arithmetic
\* instruction with two literal operands remains, except divisions and
\* modulos by the literal zero, and a second consecutive run changes
\* nothing and reports 'unchanged'.
C22_FoldingFixedPoint ==
    (trace.pass = "ConstantFolding" /\ ~trace.aborted)
    => /\ \A i \in literalBinaryOperators(lastFunction) :
            dividesByZero(instructions(lastFunction)[i])
       /\ \A again \in {runConstantFolding(
                            PassState(lastFunction, NoStats, "release"))} :
            /\ ~again.changed
            /\ again.F = lastFunction

(***************************************************************************)
(* Store-then-load folding (SpecPasses).                                   *)
(***************************************************************************)
\* the stores of F that write to the alloca, by id
storesTo(F, alloca) ==
    {s \in users(F, alloca) :
        /\ getInst(F, s).op = "Store"
        /\ getInst(F, s).args[2].k = "Instruction"
        /\ getInst(F, s).args[2].n = alloca}

\* the location has exactly one store in F and that store writes a literal
singleLiteralStore(F, alloca) ==
    /\ Cardinality(storesTo(F, alloca)) = 1
    /\ \A s \in storesTo(F, alloca) : isLiteral(getInst(F, s).args[1])

\* the loads of F from an alloca, by index
allocaLoads(F) ==
    {i \in 1..Len(instructions(F)) :
        /\ instructions(F)[i].op = "Load"
        /\ instructions(F)[i].args[1].k = "Instruction"
        /\ hasInst(F, instructions(F)[i].args[1].n)
        /\ getInst(F, instructions(F)[i].args[1].n).op = "Alloca"}

\* every instruction that used the value id in F and is still in G uses it
\* in G
keepsUses(F, G, id) ==
    \A u \in users(F, id) : hasInst(G, u) => u \in users(G, id)

\* C24: the Constant Folding pass replaces a load of a storage location by
\* a literal only when the location has exactly one store in the function
\* and that store writes a literal; the loads of a location with two or
\* more stores, or with a store of a non-literal value, keep their uses.
C24_LoadFoldingGuarded ==
    (trace.pass = "ConstantFolding" /\ ~trace.aborted)
    => \A i \in allocaLoads(trace.before[1]) :
        \A load \in {instructions(trace.before[1])[i]} :
            ~singleLiteralStore(trace.before[1], load.args[1].n)
            => keepsUses(trace.before[1], lastFunction, load.id)

(***************************************************************************)
(* Dead code elimination run once and run again (SpecDeadCode).            *)
(***************************************************************************)
\* the blocks compiled from
\*   if e: return 1 else: return 2
\*   y = 3
\* after the expression %4: the variable y is new, so AssignmentStmtAST
\* makes its alloca %20 in the entry block; the store is in ifcont, which
\* no branch reaches
NewVariableAfterReturn(prefix) ==
    <<BasicBlock("entry", <<Alloca(20)>> \o prefix \o IfHead),
      BasicBlock("then", <<Ret(7, ConstantFP(1, 1))>>),
      BasicBlock("else", <<Ret(8, ConstantFP(2, 1))>>),
      BasicBlock("ifcont", <<Store(9, ConstantFP(3, 1), 20),
                             Ret(10, ConstantFP(3, 1))>>)>>

InitDeadCode ==
    \E op \in {"FAdd", "FMul"},
       a \in {D(3), ConstantFP(2, 1)},
       b \in {D(3), ConstantFP(0, 1), ConstantFP(2, 1)},
       tail \in Tails \cup {"new_variable"} :
        InitModule(<<Function("f", 1,
                              IF tail = "new_variable"
                              THEN NewVariableAfterReturn(Prefix(op, a, b))
                              ELSE Blocks(tail, Prefix(op, a, b)), 100)>>,
                   <<>>)

NextDeadCode ==
    \/ RunDeadCodeElimination
    \/ RunConstantFolding

SpecDeadCode == InitDeadCode /\ [][NextDeadCode]_vars

\* the instructions of F the pass may remove, by id
removable(F) ==
    {instructions(F)[i].id : i \in {j \in 1..Len(instructions(F)) :
                                isInstructionDead(F, instructions(F)[j])}}

\* the blocks of F no path from the entry block reaches
unreachableBlocks(F) ==
    blockNames(F) \ reachableFrom(F, {F.blocks[1].name})

\* C23: after a single run of Dead Code Elimination the function holds no
\* removable instruction and no basic block unreachable from the entry
\* block, and a second run that follows at once reports 'unchanged'.
C23_DeadCodeFixedPoint ==
    (trace.pass = "DeadCodeElimination" /\ ~trace.aborted)
    => /\ removable(lastFunction) = {}
       /\ unreachableBlocks(lastFunction) = {}
       /\ \A again \in {runDeadCodeElimination(
                            PassState(lastFunction, NoStats, "release"))} :
            ~again.changed

(***************************************************************************)
(* The contexts the branches of an if are checked in (SpecStmt).           *)
(***************************************************************************)
\* checkIf gets past its condition: no error, a Bool or numeric type
reachesBranches(st, stmt) ==
    \A cond_result \in {inferExpressionType(st, stmt.kids[1])} :
        /\ ~hasErrors(cond_result)
        /\ isBool(cond_result.type) \/ isNumeric(cond_result.type)

\* the checker's state when checkIf calls checkStatement on the else
\* branch: then_context and else_context are clones set aside, both
\* branches are checked on current_context itself
elseEntry(st, stmt) == checkStatement(st, stmt.kids[2]).st

\* C25: while the else-branch of an if is checked, the InferenceContext is
\* exactly the one of immediately before the if: no variable type and no
\* 'modified' mark recorded while checking the then-branch is in it.
C25_BranchesOnSnapshots ==
    [][(/\ last'.op = "checkStatement"
        /\ last'.node.k = "If"
        /\ Len(last'.node.kids) > 2
        /\ last'.node.kids[3].k # "Null"
        /\ reachesBranches(CheckerState, last'.node))
       => elseEntry(CheckerState, last'.node).ctx = current_context]_vars

(***************************************************************************)
(* What solve binds a parameter to (SpecSolve).                            *)
(***************************************************************************)
\* the concrete types the EQUALS constraints of cs relate the parameter
\* name to, on either side
equalsTargets(cs, name) ==
    {cs[i].right : i \in {j \in 1..Len(cs) :
                    /\ cs[j].kind = "EQUALS"
                    /\ cs[j].left = GenericType(name)
                    /\ cs[j].right.kind # "GENERIC"}}
    \cup {cs[i].left : i \in {j \in 1..Len(cs) :
                    /\ cs[j].kind = "EQUALS"
                    /\ cs[j].right = GenericType(name)
                    /\ cs[j].left.kind # "GENERIC"}}

\* C26: the Int default is used only after the Equals constraints are
\* exhausted: in every order of the list, a parameter that was unbound and
\* that an Equals constraint relates to a concrete type C is bound to such
\* a C after solve, whether or not a Numeric or Comparable constraint on it
\* is in the list; it gets the Int default only when no Equals can bind it.
C26_DefaultAfterEquals ==
    tcall.pc = "done"
    => \A name \in GenericNames :
        (/\ tcall.start[name] = NullT
         /\ equalsTargets(tcall.constraints, name) # {})
        => type_bindings[name] \in equalsTargets(tcall.constraints, name)

\* the EQUALS constraints of cs between a generic parameter and a concrete
\* type, as pairs of the parameter's name and the type
concreteEquals(cs) ==
    {<<name, target>> \in GenericNames \X {cs[i].left : i \in 1..Len(cs)}
                            \cup GenericNames \X {cs[i].right : i \in 1..Len(cs)} :
        target \in equalsTargets(cs, name)}

\* C28: whenever solve returns true, every Equals constraint between a
\* generic parameter T and a concrete type C is satisfied by the final
\* bindings (the binding of T equals C); two Equals constraints relating
\* one T to two unequal types are never both reported as solved.
C28_SolverSound ==
    (tcall.pc = "done" /\ tcall.holds)
    => \A pair \in concreteEquals(tcall.constraints) :
        equals(type_bindings[pair[1]], pair[2])

(***************************************************************************)
(* Programs of a function that assigns a new variable x and a function     *)
(* that reads x (SpecLocals).                                              *)
(***************************************************************************)
ReadX == VariableExprAST("x")

\* functions whose body first assigns x
LocalWriters ==
    {FunctionAST("f", args, body) :
        args \in {<<>>, <<"a">>},
        body \in {AssignmentStmtAST("x", NumI), AssignmentStmtAST("x", NumF),
                  BlockStmtAST(<<AssignmentStmtAST("x", NumI),
                                 ReturnStmtAST(ReadX)>>)}}

\* functions that read x, do not assign it and do not have it as a parameter
LocalReaders ==
    {FunctionAST("g", args, body) :
        args \in {<<>>, <<"a">>},
        body \in {ReturnStmtAST(ReadX), PrintStmtAST(ReadX),
                  AssignmentStmtAST("y", ReadX),
                  BlockStmtAST(<<AssignmentStmtAST("y", ReadX),
                                 ReturnStmtAST(VariableExprAST("y"))>>)}}

LocalPrograms ==
    {<<fn>> : fn \in LocalWriters \cup LocalReaders}
    \cup {<<fn, gn>> : fn \in LocalWriters \cup LocalReaders,
                       gn \in LocalWriters \cup LocalReaders}

CheckLocals ==
    /\ last.op = "none"
    /\ CheckProgramIn(LocalPrograms)

NextLocals == CheckLocals

SpecLocals == InitChecker /\ [][NextLocals]_vars

\* C27: within one checkProgram call a variable first assigned in the body
\* of f is not visible while g is checked: g, which reads it without
\* assigning it or having it as a parameter, gets the errors it gets when
\* f is absent from the program, an undefined-variable error among them.
C27_LocalsDoNotLeak ==
    [][(/\ last'.op = "checkProgram"
        /\ Len(last'.prog) = 2
        /\ last'.prog[1] \in LocalWriters
        /\ last'.prog[2] \in LocalReaders)
       => /\ formatUndefinedVariable("x") \in
                {last'.errors[i] : i \in 1..Len(last'.errors)}
          /\ last'.errors =
                checkProgram(CheckerState, <<last'.prog[1]>>).errors
                \o checkProgram(CheckerState, <<last'.prog[2]>>).errors]_vars

\* C29: equality implies assignability: for all types A and B, if
\* A.equals(B) then A.isAssignableFrom(B); every Union and
\* DiscriminatedUnion type is assignable from itself (SpecAssign).
C29_EqualsImpliesAssignable ==
    (tcall.op = "isAssignableFrom" /\ tcall.b # NullT)
    => (equals(tcall.a, tcall.b) => tcall.holds)

(***************************************************************************)
(* The Arithmetic Simplification pass run again and again on its own       *)
(* output (SpecResimplify).  An instruction's identity is its address; the *)
(* pass never looks at it, so between runs the instructions are renamed by *)
(* their position in the function.                                         *)
(***************************************************************************)
position(F, id) ==
    CHOOSE i \in 1..Len(instructions(F)) : instructions(F)[i].id = id

renumber(F) ==
    [mapInsts(F, LAMBDA I :
        [I EXCEPT !.id = position(F, I.id),
                  !.args = [a \in 1..Len(I.args) |->
                                IF /\ I.args[a].k = "Instruction"
                                   /\ hasInst(F, I.args[a].n)
                                THEN [I.args[a] EXCEPT !.n = position(F, @)]
                                ELSE I.args[a]]])
     EXCEPT !.next_id = Len(instructions(F)) + 1]

\* QuillArithmeticSimplificationPass::run on the function it produced last
Resimplify ==
    /\ ~trace.aborted
    /\ \E st \in {runArithmeticSimplification(
                    PassState(module[1], NoStats, "release"))} :
        /\ module' = [module EXCEPT ![1] = renumber(st.F)]
        /\ trace' = [trace EXCEPT !.pass = "ArithmeticSimplification",
                                  !.before = module,
                                  !.changed = st.changed]
    /\ UNCHANGED <<envVars, typeVars>>

NextResimplify == Resimplify

\* the pass manager runs the pass whenever it is asked to: a pending run
\* happens
SpecResimplify ==
    InitPasses /\ [][NextResimplify]_vars /\ WF_vars(Resimplify)

\* C30: for every function, running Arithmetic Simplification again and
\* again on its own output eventually yields a run that rewrites nothing
\* and reports 'unchanged'.
C30_SimplificationConverges ==
    <>(trace.pass = "ArithmeticSimplification" /\ ~trace.changed)

====
